---- MODULE Spec2Model ----
(***************************************************************************)
(* The FSRS v5 scheduler of services/shared/srs/fsrs.py and the review     *)
(* submission handler of services/api/src/routes/vocabulary.py.            *)
(*                                                                         *)
(* Python floats are modelled as decimal fixed-point numbers: the integer  *)
(* n stands for n / Unit, so 24000 is 2.4 days.  Every product and         *)
(* quotient is rounded to the nearest representable value, as an IEEE      *)
(* operation is.  Timestamps are in the same unit, in days since an        *)
(* arbitrary epoch.                                                        *)
(***************************************************************************)
EXTENDS Integers, Sequences, FiniteSets, TLC

\* ------------------------------------------------------------------------
\* Fixed-point arithmetic (the float operators of Python)
\* ------------------------------------------------------------------------

Unit == 10^4
Digit == 10^2

Abs(x) == IF x < 0 THEN -x ELSE x
Max(a, b) == IF a >= b THEN a ELSE b
Min(a, b) == IF a <= b THEN a ELSE b

\* a * b for a, b >= 0, rounded to nearest; the split keeps every
\* intermediate product below 2^31.
MulNN(a, b) ==
    LET ah == a \div Digit
        al == a % Digit
        bh == b \div Digit
        bl == b % Digit
    IN  ah * bh + ((ah * bl + al * bh + ((al * bl + (Unit \div 2)) \div Digit)) \div Digit)

\* float * float
Mul(a, b) ==
    IF (a < 0) = (b < 0) THEN MulNN(Abs(a), Abs(b)) ELSE -MulNN(Abs(a), Abs(b))

RECURSIVE LongDiv(_, _, _, _)
LongDiv(q, r, b, n) ==
    IF n = 0 THEN (IF 2 * r >= b THEN q + 1 ELSE q)
    ELSE LongDiv(q * 10 + ((r * 10) \div b), (r * 10) % b, b, n - 1)

\* a / b for a >= 0, b > 0, rounded to nearest (four decimal digits of
\* long division).
DivNN(a, b) == LongDiv(a \div b, a % b, b, 4)

\* float / float, b # 0
Div(a, b) ==
    IF (a < 0) = (b < 0) THEN DivNN(Abs(a), Abs(b)) ELSE -DivNN(Abs(a), Abs(b))

\* Euler's number and ln 2 in fixed point.
EulerE == 27183
Ln2 == 6931

RECURSIVE ExpSeries(_, _, _, _)
ExpSeries(term, f, n, acc) ==
    IF term = 0 \/ n > 10 THEN acc
    ELSE LET t == (MulNN(term, f) + (n \div 2)) \div n
         IN  ExpSeries(t, f, n + 1, acc + t)

RECURSIVE EPow(_)
EPow(k) == IF k = 0 THEN Unit ELSE MulNN(EPow(k - 1), EulerE)

\* math.exp(x)
Exp(x) ==
    IF x >= 0
    THEN MulNN(EPow(x \div Unit), ExpSeries(Unit, x % Unit, 1, Unit))
    ELSE DivNN(Unit, MulNN(EPow((-x) \div Unit), ExpSeries(Unit, (-x) % Unit, 1, Unit)))

\* ln m for 1 <= m < 2: 2 * atanh((m - 1) / (m + 1))
LnMantissa(m) ==
    LET z  == DivNN(m - Unit, m + Unit)
        z2 == MulNN(z, z)
        z3 == MulNN(z, z2)
        z5 == MulNN(z3, z2)
        z7 == MulNN(z5, z2)
    IN  2 * (z + ((z3 + 1) \div 3) + ((z5 + 2) \div 5) + ((z7 + 3) \div 7))

RECURSIVE Ln(_)
\* math.log(x), x > 0
Ln(x) ==
    IF x >= 2 * Unit THEN Ln2 + Ln((x + 1) \div 2)
    ELSE IF x < Unit THEN Ln(2 * x) - Ln2
    ELSE LnMantissa(x)

\* x ** y for x >= 0 (float.__pow__)
Pow(x, y) == IF y = 0 THEN Unit ELSE IF x = 0 THEN 0 ELSE Exp(Mul(y, Ln(x)))

\* round(x, 2), ties to even
Round2(x) ==
    LET q == x \div Digit
        r == x % Digit
    IN  IF r * 2 < Digit THEN q * Digit
        ELSE IF r * 2 > Digit THEN (q + 1) * Digit
        ELSE IF q % 2 = 0 THEN q * Digit ELSE (q + 1) * Digit

\* ------------------------------------------------------------------------
\* services/shared/srs/fsrs.py
\* ------------------------------------------------------------------------

\* The 17 default weights, w[0] .. w[16] (1-indexed here).
DEFAULT_WEIGHTS ==
    << 4000, 6000, 24000, 58000, 49300, 9400, 8600, 100, 14900,
       1400, 9400, 21800, 500, 3400, 12600, 2900, 26100 >>

DEFAULT_RETENTION == (9 * Unit) \div 10

RATING_AGAIN == 1
RATING_HARD == 2
RATING_GOOD == 3
RATING_EASY == 4

\* None: no object (no scheduler constructed, no value returned)
None == "None"

\* CardState(stability, difficulty, elapsed_days, scheduled_days, reps,
\* lapses, last_review)
CardState(stability, difficulty, elapsed_days, scheduled_days, reps, lapses, last_review) ==
    [ stability |-> stability, difficulty |-> difficulty,
      elapsed_days |-> elapsed_days, scheduled_days |-> scheduled_days,
      reps |-> reps, lapses |-> lapses, last_review |-> last_review ]

\* Mutant of is_new: only reps is looked at, so that a card that was
\* forgotten at its first review stays new.
is_new_by_reps(c) == c.reps = 0

\* CardState.is_new
is_new(c) == c.reps = 0 /\ c.lapses = 0

\* Mutant of initial_state: a card starts at the lowest difficulty with an
\* interval of one day.
initial_state_one_day(t) == CardState(0, Unit, 0, Unit, 0, 0, t)

\* FSRSScheduler.initial_state(), called at time t (last_review defaults to
\* the time of construction)
initial_state(t) == CardState(0, 0, 0, 0, 0, 0, t)

\* self.w[i]
W(s, i) == s.w[i + 1]

\* Mutant of init_error: only too short a vector is refused.
init_error_too_short_only(weights) == IF Len(weights) < 17 THEN "ValueError" ELSE None

\* FSRSScheduler.__init__: the error it raises, or None
init_error(weights) == IF Len(weights) # 17 THEN "ValueError" ELSE None

\* FSRSScheduler.__init__: the object it builds
FSRSScheduler(weights, desired_retention) ==
    [ w |-> weights, desired_retention |-> desired_retention ]

\* FSRSScheduler._clamp_difficulty
clamp_difficulty(d) == Max(Unit, Min(10 * Unit, d))

\* Mutant of initial_stability: the weight is read one index too far.
initial_stability_off_by_one(s, rating) == W(s, rating)

\* FSRSScheduler._initial_stability
initial_stability(s, rating) == W(s, rating - 1)

\* Mutant of initial_difficulty: the sign of the rating term is turned, so
\* that a better rating gives a higher difficulty.
initial_difficulty_rising(s, rating) ==
    clamp_difficulty(W(s, 4) + (rating - 3) * W(s, 5))

\* FSRSScheduler._initial_difficulty
initial_difficulty(s, rating) ==
    clamp_difficulty(W(s, 4) - (rating - 3) * W(s, 5))

\* Mutant of next_difficulty: the difference to the mean is added where the
\* code takes a weighted mean, so that difficulty moves away from w[4].
next_difficulty_away(s, current_d, rating) ==
    LET d0_mean == W(s, 4)
        delta   == current_d - W(s, 5) * (rating - 3)
        new_d   == delta + Mul(Unit - W(s, 6), delta - d0_mean)
    IN  clamp_difficulty(new_d)

\* FSRSScheduler._next_difficulty
next_difficulty(s, current_d, rating) ==
    LET d0_mean == W(s, 4)
        delta   == current_d - W(s, 5) * (rating - 3)
        new_d   == Mul(W(s, 6), d0_mean) + Mul(Unit - W(s, 6), delta)
    IN  clamp_difficulty(new_d)

\* Mutant of retrievability: a card without stability counts as certainly
\* recalled.
retrievability_certain(c, elapsed_days) ==
    IF c.stability <= 0 THEN Unit
    ELSE Div(Unit, Unit + Div(elapsed_days, 9 * c.stability))

\* FSRSScheduler.retrievability with elapsed_days given
retrievability(c, elapsed_days) ==
    IF c.stability <= 0 THEN 0
    ELSE Div(Unit, Unit + Div(elapsed_days, 9 * c.stability))

\* Mutant of next_interval: the factor 9 of the forgetting curve is left out.
next_interval_no_nine(s, stability) ==
    IF stability <= 0 THEN Unit
    ELSE Max(Round2(Mul(stability, Div(Unit, s.desired_retention) - Unit)), Unit)

\* Mutant of next_interval: the interval grows with desired_retention.
next_interval_by_retention(s, stability) ==
    IF stability <= 0 THEN Unit
    ELSE Max(Round2(Mul(Mul(9 * Unit, stability), s.desired_retention)), Unit)

\* Mutant of next_interval: the one-day floor is left out.
next_interval_no_floor(s, stability) ==
    IF stability <= 0 THEN Unit
    ELSE Round2(Mul(Mul(9 * Unit, stability), Div(Unit, s.desired_retention) - Unit))

\* FSRSScheduler._next_interval
next_interval(s, stability) ==
    IF stability <= 0 THEN Unit
    ELSE LET interval == Mul(Mul(9 * Unit, stability),
                             Div(Unit, s.desired_retention) - Unit)
         IN  Max(Round2(interval), Unit)

\* Mutant of stability_after_success: the "+ 1" of the growth factor is left
\* out.
stability_after_success_no_plus_one(s, stability, difficulty, r, rating) ==
    LET inner == Mul(Mul(Mul(Exp(W(s, 8)), 11 * Unit - difficulty),
                         Pow(stability, -W(s, 10))),
                     Exp(Mul(W(s, 11), Unit - r)) - Unit)
        new_s == Mul(stability, inner)
        hard  == IF rating = RATING_HARD
                 THEN Min(new_s, Mul(stability, (12 * Unit) \div 10))
                 ELSE new_s
        easy  == IF rating = RATING_EASY THEN Mul(hard, W(s, 16)) ELSE hard
    IN  Max(easy, Unit \div 100)

\* Mutant of stability_after_success: the Hard cap is 0.8 times the old
\* stability.
stability_after_success_hard_shrinks(s, stability, difficulty, r, rating) ==
    LET inner == Mul(Mul(Mul(Exp(W(s, 8)), 11 * Unit - difficulty),
                         Pow(stability, -W(s, 10))),
                     Exp(Mul(W(s, 11), Unit - r)) - Unit) + Unit
        new_s == Mul(stability, inner)
        hard  == IF rating = RATING_HARD
                 THEN Min(new_s, Mul(stability, (8 * Unit) \div 10))
                 ELSE new_s
        easy  == IF rating = RATING_EASY THEN Mul(hard, W(s, 16)) ELSE hard
    IN  Max(easy, Unit \div 100)

\* FSRSScheduler._stability_after_success
stability_after_success(s, stability, difficulty, r, rating) ==
    LET inner == Mul(Mul(Mul(Exp(W(s, 8)), 11 * Unit - difficulty),
                         Pow(stability, -W(s, 10))),
                     Exp(Mul(W(s, 11), Unit - r)) - Unit) + Unit
        new_s == Mul(stability, inner)
        hard  == IF rating = RATING_HARD
                 THEN Min(new_s, Mul(stability, (12 * Unit) \div 10))
                 ELSE new_s
        easy  == IF rating = RATING_EASY THEN Mul(hard, W(s, 16)) ELSE hard
    IN  Max(easy, Unit \div 100)

\* Mutant of stability_after_failure: max where the code has min, so the
\* old stability is kept.
stability_after_failure_keeps(s, stability, difficulty, r) ==
    LET new_s == Mul(Mul(Mul(W(s, 12), Pow(difficulty, -W(s, 13))),
                         Pow(stability + Unit, W(s, 14)) - Unit),
                     Exp(Mul(W(s, 15), Unit - r)))
    IN  Max(Max(new_s, stability), Unit \div 100)

\* Mutant of stability_after_failure: the floor is 1.0, the floor of the
\* interval, where the code has 0.01.
stability_after_failure_floor_one(s, stability, difficulty, r) ==
    LET new_s == Mul(Mul(Mul(W(s, 12), Pow(difficulty, -W(s, 13))),
                         Pow(stability + Unit, W(s, 14)) - Unit),
                     Exp(Mul(W(s, 15), Unit - r)))
    IN  Max(Min(new_s, stability), Unit)

\* FSRSScheduler._stability_after_failure
stability_after_failure(s, stability, difficulty, r) ==
    LET new_s == Mul(Mul(Mul(W(s, 12), Pow(difficulty, -W(s, 13))),
                         Pow(stability + Unit, W(s, 14)) - Unit),
                     Exp(Mul(W(s, 15), Unit - r)))
    IN  Max(Min(new_s, stability), Unit \div 100)

\* FSRSScheduler._review_new
review_new(s, c, rating, now) ==
    LET stability  == initial_stability(s, rating)
        difficulty == initial_difficulty(s, rating)
        interval   == next_interval(s, stability)
        reps       == IF rating = RATING_AGAIN THEN 0 ELSE 1
        lapses     == IF rating = RATING_AGAIN THEN 1 ELSE 0
    IN  CardState(stability, difficulty, 0, interval, reps, lapses, now)

\* FSRSScheduler._review_existing: new_lapses
next_lapses(c, rating) == IF rating = RATING_AGAIN THEN c.lapses + 1 ELSE c.lapses

\* Mutant of next_reps: a lapse counts as a repetition too.
next_reps_counts_lapses(c, rating) == c.reps + 1

\* FSRSScheduler._review_existing: new_reps
next_reps(c, rating) == IF rating = RATING_AGAIN THEN c.reps ELSE c.reps + 1

\* Mutant of review_existing: elapsed_days is carried over from the card
\* given.
review_existing_carries_elapsed(s, c, rating, now) ==
    LET elapsed_days   == c.elapsed_days
        r              == retrievability(c, elapsed_days)
        new_difficulty == next_difficulty(s, c.difficulty, rating)
        new_stability  ==
            IF rating = RATING_AGAIN
            THEN stability_after_failure(s, c.stability, new_difficulty, r)
            ELSE stability_after_success(s, c.stability, new_difficulty, r, rating)
        interval       == next_interval(s, new_stability)
        adjusted       ==
            IF rating = RATING_HARD
            THEN Max(Mul(interval, (8 * Unit) \div 10), Unit)
            ELSE IF rating = RATING_EASY
            THEN Mul(interval, Unit + Mul(W(s, 16) - Unit, Unit \div 2))
            ELSE interval
    IN  CardState(new_stability, new_difficulty, elapsed_days,
                  Max(Round2(adjusted), Unit), next_reps(c, rating),
                  next_lapses(c, rating), now)

\* Mutant of review_existing: the interval of a Hard review is not cut and
\* the interval of an Easy review is not raised.
review_existing_unadjusted(s, c, rating, now) ==
    LET elapsed_days   == Max(now - c.last_review, 0)
        r              == retrievability(c, elapsed_days)
        new_difficulty == next_difficulty(s, c.difficulty, rating)
        new_stability  ==
            IF rating = RATING_AGAIN
            THEN stability_after_failure(s, c.stability, new_difficulty, r)
            ELSE stability_after_success(s, c.stability, new_difficulty, r, rating)
        interval       == next_interval(s, new_stability)
    IN  CardState(new_stability, new_difficulty, elapsed_days,
                  Max(Round2(interval), Unit), next_reps(c, rating),
                  next_lapses(c, rating), now)

\* FSRSScheduler._review_existing
review_existing(s, c, rating, now) ==
    LET elapsed_days   == Max(now - c.last_review, 0)
        r              == retrievability(c, elapsed_days)
        new_difficulty == next_difficulty(s, c.difficulty, rating)
        new_stability  ==
            IF rating = RATING_AGAIN
            THEN stability_after_failure(s, c.stability, new_difficulty, r)
            ELSE stability_after_success(s, c.stability, new_difficulty, r, rating)
        new_lapses     == next_lapses(c, rating)
        new_reps       == next_reps(c, rating)
        interval       == next_interval(s, new_stability)
        adjusted       ==
            IF rating = RATING_HARD
            THEN Max(Mul(interval, (8 * Unit) \div 10), Unit)
            ELSE IF rating = RATING_EASY
            THEN Mul(interval, Unit + Mul(W(s, 16) - Unit, Unit \div 2))
            ELSE interval
    IN  CardState(new_stability, new_difficulty, elapsed_days,
                  Max(Round2(adjusted), Unit), new_reps, new_lapses, now)

\* x ** y on floats raises ZeroDivisionError for 0.0 to a negative power; for
\* x < 0 and a fractional y it gives a complex number, and the min or max
\* that the result goes to raises TypeError.
pow_error(x, y) ==
    IF x = 0 /\ y < 0 THEN "ZeroDivisionError"
    ELSE IF x < 0 /\ y % Unit # 0 THEN "TypeError"
    ELSE None

\* x / y on floats raises ZeroDivisionError for a zero divisor.
div_error(y) == IF y = 0 THEN "ZeroDivisionError" ELSE None

\* The first of the errors e1, e2 that is raised.
OrElse(e1, e2) == IF e1 # None THEN e1 ELSE e2

\* Mutant of rating_error: the upper limit is one too high.
rating_error_five_allowed(rating) ==
    IF rating < RATING_AGAIN \/ rating > RATING_EASY + 1 THEN "ValueError" ELSE None

\* FSRSScheduler.review: the check of the rating
rating_error(rating) ==
    IF rating < RATING_AGAIN \/ rating > RATING_EASY THEN "ValueError" ELSE None

\* FSRSScheduler._next_interval: what it raises
next_interval_error(s, stability) ==
    IF stability <= 0 THEN None ELSE div_error(s.desired_retention)

\* FSRSScheduler._stability_after_success: what it raises
stability_after_success_error(s, stability) == pow_error(stability, -W(s, 10))

\* FSRSScheduler._stability_after_failure: what its power of the difficulty
\* raises (the difficulty it is given is clamped to [1, 10])
stability_after_failure_error(s, difficulty) == pow_error(difficulty, -W(s, 13))

\* FSRSScheduler._stability_after_failure: what its power of stability + 1
\* raises
stability_after_failure_base_error(s, stability) == pow_error(stability + Unit, W(s, 14))

\* FSRSScheduler._review_new: what it raises
review_new_error(s, rating) ==
    next_interval_error(s, initial_stability(s, rating))

\* FSRSScheduler._review_existing: what it raises
review_existing_error(s, c, rating) ==
    IF rating = RATING_AGAIN
    THEN OrElse(stability_after_failure_error(s, next_difficulty(s, c.difficulty, rating)),
                OrElse(stability_after_failure_base_error(s, c.stability),
                       div_error(s.desired_retention)))
    ELSE OrElse(stability_after_success_error(s, c.stability),
                div_error(s.desired_retention))

\* FSRSScheduler.review: the exception it raises on (card, rating), or None
review_error(s, c, rating) ==
    IF rating_error(rating) # None THEN rating_error(rating)
    ELSE IF is_new(c) THEN review_new_error(s, rating)
    ELSE review_existing_error(s, c, rating)

\* FSRSScheduler.review, for a call that raises nothing
review(s, c, rating, now) ==
    IF is_new(c) THEN review_new(s, c, rating, now)
    ELSE review_existing(s, c, rating, now)

\* FSRSScheduler.next_due_date
next_due_date(c) == c.last_review + c.scheduled_days

\* datetime.max (the end of year 9999) on the model's clock: the clock's
\* origin is put this many days before it, so that the end of the range of
\* datetime lies within the integers of the model.
DatetimeMax == 200000 * Unit

\* FSRSScheduler.next_due_date: what it raises (datetime + timedelta beyond
\* datetime.max)
next_due_date_error(c) ==
    IF c.last_review + c.scheduled_days > DatetimeMax THEN "OverflowError" ELSE None


\* ------------------------------------------------------------------------
\* A card reviewed again and again by one scheduler
\* ------------------------------------------------------------------------

\* Bounds of the model
MaxReviews == 4
MaxStability == 300

\* Days that may pass before a call of review
Gaps == {0, 2 * Unit, 60 * Unit}

\* The weight vectors given to the constructor: None (the defaults), the
\* defaults passed explicitly, and vectors of a wrong length
WeightInputs ==
    { DEFAULT_WEIGHTS, <<1000, 2000>>, <<>>,
      SubSeq(DEFAULT_WEIGHTS, 1, 16), Append(DEFAULT_WEIGHTS, Unit) }

RatingInputs == 0 .. 5

VARIABLES
    schedulers,           \* the FSRSScheduler objects constructed so far
    card,                 \* the card state the caller holds
    now,                  \* the wall clock
    ratings,              \* the ratings of the reviews applied to the card so far
    call,                 \* the latest call: its arguments, and what it returned or raised
    vocabulary_items,     \* table vocabulary_items: the ids of its rows
    vocabulary_progress,  \* table vocabulary_progress: its rows, in order of insertion
    requests,             \* the POST /review requests in flight, by connection
    accepted,             \* the number of requests answered 200 so far
    tasks,                \* the calls of review running on the shared scheduler, by thread
    frames,               \* the local variables of these calls, by stack frame
    buckets,              \* RateLimiter._buckets: the bucket of each user that has one
    monotonic,            \* time.monotonic(), in seconds
    granted,              \* the requests that check let through, counted by user and time
    exam_attempts,        \* table exam_attempts: its rows, in order of insertion
    exam_requests,        \* the POST /{id}/answer requests in flight, by connection
    async_jobs,           \* table async_jobs: its rows, in order of created_at
    worker,               \* the position of _poll_loop and its local variables
    handled               \* the number of times a handler was called, by job id

chainVars == <<schedulers, card, ratings, call>>
storeVars == <<vocabulary_items, vocabulary_progress, requests, accepted>>
taskVars == <<tasks, frames>>
limiterVars == <<buckets, monotonic, granted>>
examVars == <<exam_attempts, exam_requests>>
jobVars == <<async_jobs, worker, handled>>
serviceVars == <<limiterVars, examVars, jobVars>>
vars == <<schedulers, card, now, ratings, call,
          vocabulary_items, vocabulary_progress, requests, accepted, tasks, frames,
          buckets, monotonic, granted, exam_attempts, exam_requests,
          async_jobs, worker, handled>>

\* A call record: arg and returned hold at most one value (<<>> is no value).
Call(op, arg, rating, raised, returned) ==
    [op |-> op, arg |-> arg, rating |-> rating, raised |-> raised, returned |-> returned]

\* Bounds of the request model
MaxRequests == 3
MaxDays == 2

\* The connections that may carry a request at the same time
Connections == {1, 2}

\* The vocabulary item that exists, and one that does not
ItemId == 1
MissingItemId == 2

\* The threads that may call review at the same time
Threads == {1, 2}

\* A thread that is not in a call of review
NoCall == [pc |-> "idle", card |-> <<>>, given |-> <<>>, rating |-> 0, now |-> 0,
           result |-> <<>>]

\* A stack frame with nothing assigned yet
NoLocals == [r |-> 0, difficulty |-> 0, stability |-> 0]

\* No thread has called review.
TasksInit ==
    /\ tasks = [t \in Threads |-> NoCall]
    /\ frames = [t \in Threads |-> NoLocals]

\* A connection that carries no POST /{id}/answer request and has carried
\* none so far
NoAnswer == [pc |-> "idle", sent |-> 0, exam |-> <<>>]

\* _poll_loop between two polls
Sleeping == [pc |-> "sleep", jobs |-> <<>>]

\* The rate limiter has no bucket, the tables exam_attempts and async_jobs
\* are empty, and the worker has not polled yet.
ServicesInit ==
    /\ buckets = <<>>
    /\ monotonic = 0
    /\ granted = <<>>
    /\ exam_attempts = <<>>
    /\ exam_requests = [c \in Connections |-> NoAnswer]
    /\ async_jobs = <<>>
    /\ worker = Sleeping
    /\ handled = <<>>

\* A connection with no request in flight
Idle == [pc |-> "idle", item |-> 0, rating |-> 0, now |-> 0, progress_result |-> <<>>]

\* No request was ever made and the tables hold the one vocabulary item.
StoreInit ==
    /\ vocabulary_items = {ItemId}
    /\ vocabulary_progress = <<>>
    /\ requests = [p \in Connections |-> Idle]
    /\ accepted = 0

Init ==
    /\ schedulers = {}
    /\ now = 0
    /\ card = initial_state(0)
    /\ ratings = <<>>
    /\ call = Call(None, <<>>, 0, None, <<>>)
    /\ StoreInit
    /\ TasksInit
    /\ ServicesInit

\* _fsrs = FSRSScheduler(weights)
Construct(weights) ==
    /\ schedulers = {}
    /\ IF init_error(weights) # None
       THEN /\ call' = Call("__init__", <<weights>>, 0, init_error(weights), <<>>)
            /\ UNCHANGED schedulers
       ELSE /\ schedulers' = {FSRSScheduler(weights, DEFAULT_RETENTION)}
            /\ call' = Call("__init__", <<weights>>, 0, None,
                            <<FSRSScheduler(weights, DEFAULT_RETENTION)>>)
    /\ UNCHANGED <<card, now, ratings>>
    /\ UNCHANGED storeVars
    /\ UNCHANGED taskVars
    /\ UNCHANGED serviceVars

\* card = _fsrs.review(card, rating), gap days after the previous review.
\* A rating out of range is rejected before the clock is read.
Review(s, rating, gap) ==
    /\ Len(ratings) < MaxReviews
    /\ card.stability <= MaxStability * Unit
    /\ IF review_error(s, card, rating) # None
       THEN /\ call' = Call("review", <<card>>, rating,
                            review_error(s, card, rating), <<>>)
            /\ UNCHANGED <<card, ratings, now>>
       ELSE /\ now' = now + gap
            /\ card' = review(s, card, rating, now')
            /\ ratings' = Append(ratings, rating)
            /\ call' = Call("review", <<card>>, rating, None, <<card'>>)
    /\ UNCHANGED schedulers
    /\ UNCHANGED storeVars
    /\ UNCHANGED taskVars
    /\ UNCHANGED serviceVars

Next ==
    \/ \E weights \in WeightInputs : Construct(weights)
    \/ \E s \in schedulers, rating \in RatingInputs, gap \in Gaps :
          Review(s, rating, gap)

Spec == Init /\ [][Next]_vars

\* ------------------------------------------------------------------------
\* review applied once to a card state built by the caller
\* ------------------------------------------------------------------------

StabilityInputs == {0, Unit \div 200, Unit \div 100, (4 * Unit) \div 10, (24 * Unit) \div 10, 100 * Unit}
DifficultyInputs == {0, Unit, (493 * Unit) \div 100, 10 * Unit}
IntervalInputs == {0, Unit, (24 * Unit) \div 10}

\* CardState(stability=..., difficulty=..., scheduled_days=..., reps=...,
\* lapses=..., last_review=now)
CardInputs ==
    { CardState(st, d, 0, sd, reps, lapses, 0) :
        st \in StabilityInputs, d \in DifficultyInputs, sd \in IntervalInputs,
        reps \in {0, 1, 3}, lapses \in {0, 1} }

InitCards ==
    /\ schedulers = {FSRSScheduler(DEFAULT_WEIGHTS, DEFAULT_RETENTION)}
    /\ now = 0
    /\ card \in CardInputs
    /\ ratings = <<>>
    /\ call = Call(None, <<>>, 0, None, <<>>)
    /\ StoreInit
    /\ TasksInit
    /\ ServicesInit

\* scheduler.review(card, rating), once
ReviewOnce(s, rating, gap) == call.op = None /\ Review(s, rating, gap)

NextCards ==
    \E s \in schedulers, rating \in RatingInputs, gap \in Gaps :
        ReviewOnce(s, rating, gap)

SpecCards == InitCards /\ [][NextCards]_vars

\* ------------------------------------------------------------------------
\* services/api/src/routes/vocabulary.py: POST /review
\* ------------------------------------------------------------------------

\* The module's scheduler: _fsrs = FSRSScheduler()
fsrs == FSRSScheduler(DEFAULT_WEIGHTS, DEFAULT_RETENTION)

\* The bodies a client posts: (item_id, rating)
SubmitInputs ==
    { <<ItemId, RATING_AGAIN>>, <<ItemId, RATING_GOOD>>, <<ItemId, RATING_EASY>>,
      <<ItemId, 0>>, <<MissingItemId, RATING_GOOD>> }

\* A row of vocabulary_progress
ProgressRow(id, item, new_card, next_due, review_count, correct_count, rating, at) ==
    [ id |-> id, vocabulary_item_id |-> item,
      fsrs_stability |-> new_card.stability,
      fsrs_difficulty |-> new_card.difficulty,
      fsrs_due_date |-> next_due,
      fsrs_interval |-> new_card.scheduled_days,
      review_count |-> review_count, correct_count |-> correct_count,
      last_review_rating |-> rating, last_reviewed_at |-> at ]

\* supabase.table("vocabulary_progress").select("*").eq("user_id", ...)
\*     .eq("vocabulary_item_id", item)
SelectRows(item) ==
    SelectSeq(vocabulary_progress, LAMBDA row : row.vocabulary_item_id = item)

\* submit_review: the CardState built from the stored row
card_from_row(prog) ==
    CardState(prog.fsrs_stability, prog.fsrs_difficulty, 0, prog.fsrs_interval,
              prog.review_count, 0, prog.last_reviewed_at)

\* Mutant of Submit: the rating of the body is not validated.
Submit_unvalidated(p, item, rating) ==
    /\ requests[p].pc \in {"idle", "200", "404", "422", "500"}
    /\ accepted + Cardinality({q \in Connections :
            requests[q].pc \in {"select_item", "select_progress", "review"}}) < MaxRequests
    /\ requests' = [requests EXCEPT ![p] =
          [Idle EXCEPT !.pc = "select_item", !.item = item,
                       !.rating = rating, !.now = now]]
    /\ UNCHANGED <<vocabulary_items, vocabulary_progress, accepted, now>>
    /\ UNCHANGED chainVars
    /\ UNCHANGED taskVars
    /\ UNCHANGED serviceVars

\* The request arrives: the body is validated against VocabularyReviewRequest
\* (422 for a rating outside 1..4), then submit_review starts and reads the
\* clock.
Submit(p, item, rating) ==
    /\ requests[p].pc \in {"idle", "200", "404", "422", "500"}
    /\ accepted + Cardinality({q \in Connections :
            requests[q].pc \in {"select_item", "select_progress", "review"}}) < MaxRequests
    /\ requests' = [requests EXCEPT ![p] =
          IF rating < 1 \/ rating > 4
          THEN [Idle EXCEPT !.pc = "422", !.item = item, !.rating = rating]
          ELSE [Idle EXCEPT !.pc = "select_item", !.item = item,
                            !.rating = rating, !.now = now]]
    /\ UNCHANGED <<vocabulary_items, vocabulary_progress, accepted, now>>
    /\ UNCHANGED chainVars
    /\ UNCHANGED taskVars
    /\ UNCHANGED serviceVars

\* submit_review: "Verify the vocabulary item exists"
SelectItem(p) ==
    /\ requests[p].pc = "select_item"
    /\ requests' = [requests EXCEPT ![p].pc =
          IF requests[p].item \in vocabulary_items THEN "select_progress" ELSE "404"]
    /\ UNCHANGED <<vocabulary_items, vocabulary_progress, accepted, now>>
    /\ UNCHANGED chainVars
    /\ UNCHANGED taskVars
    /\ UNCHANGED serviceVars

\* submit_review: "Get or create progress record" (the select)
SelectProgress(p) ==
    /\ requests[p].pc = "select_progress"
    /\ requests' = [requests EXCEPT ![p].pc = "review",
                                    ![p].progress_result = SelectRows(requests[p].item)]
    /\ UNCHANGED <<vocabulary_items, vocabulary_progress, accepted, now>>
    /\ UNCHANGED chainVars
    /\ UNCHANGED taskVars
    /\ UNCHANGED serviceVars

\* submit_review: build the card, run the review, insert or update the row
ReviewAndWrite(p) ==
    LET req       == requests[p]
        has_row   == req.progress_result # <<>>
        prog      == req.progress_result[1]
        correct_increment == IF req.rating >= 3 THEN 1 ELSE 0
    IN
    /\ req.pc = "review"
    /\ \E c \in {IF has_row THEN card_from_row(prog) ELSE initial_state(now)} :
          IF review_error(fsrs, c, req.rating) # None
          THEN /\ requests' = [requests EXCEPT ![p].pc = "500"]
               /\ UNCHANGED <<vocabulary_progress, accepted>>
          ELSE \E new_card \in {review(fsrs, c, req.rating, now)} :
               IF next_due_date_error(new_card) # None
               THEN /\ requests' = [requests EXCEPT ![p].pc = "500"]
                    /\ UNCHANGED <<vocabulary_progress, accepted>>
               ELSE \E next_due \in {next_due_date(new_card)} :
                    /\ vocabulary_progress' =
                         IF has_row
                         THEN [i \in 1 .. Len(vocabulary_progress) |->
                                  IF vocabulary_progress[i].id = prog.id
                                  THEN ProgressRow(prog.id, prog.vocabulary_item_id,
                                                   new_card, next_due,
                                                   prog.review_count + 1,
                                                   prog.correct_count + correct_increment,
                                                   req.rating, req.now)
                                  ELSE vocabulary_progress[i]]
                         ELSE Append(vocabulary_progress,
                                     ProgressRow(Len(vocabulary_progress) + 1, req.item,
                                                 new_card, next_due, 1, correct_increment,
                                                 req.rating, req.now))
                    /\ requests' = [requests EXCEPT ![p].pc = "200"]
                    /\ accepted' = accepted + 1
    /\ UNCHANGED <<vocabulary_items, now>>
    /\ UNCHANGED chainVars
    /\ UNCHANGED taskVars
    /\ UNCHANGED serviceVars

\* A day passes.
Tick ==
    /\ now < MaxDays * Unit
    /\ now' = now + Unit
    /\ UNCHANGED storeVars
    /\ UNCHANGED taskVars
    /\ UNCHANGED serviceVars
    /\ UNCHANGED chainVars

InitSubmit ==
    /\ schedulers = {fsrs}
    /\ now = 0
    /\ card = initial_state(0)
    /\ ratings = <<>>
    /\ call = Call(None, <<>>, 0, None, <<>>)
    /\ StoreInit
    /\ TasksInit
    /\ ServicesInit

NextSubmit ==
    \/ \E p \in Connections, body \in SubmitInputs : Submit(p, body[1], body[2])
    \/ \E p \in Connections : SelectItem(p)
    \/ \E p \in Connections : SelectProgress(p)
    \/ \E p \in Connections : ReviewAndWrite(p)
    \/ Tick

SpecSubmit == InitSubmit /\ [][NextSubmit]_vars

\* ------------------------------------------------------------------------
\* Properties of the review chain
\* ------------------------------------------------------------------------

\* The latest call was a review that returned a card.
Reviewed == call.op = "review" /\ call.raised = None

\* The card given to the latest review call.
Before == call.arg[1]

AllGood(seq) == \A i \in 1 .. Len(seq) : seq[i] = RATING_GOOD

RECURSIVE CountIn(_, _)
\* The number of the ratings of seq that lie in the set S.
CountIn(seq, S) ==
    IF seq = <<>> THEN 0
    ELSE (IF Head(seq) \in S THEN 1 ELSE 0) + CountIn(Tail(seq), S)

\* C1: after every review of a chain started from initial_state(), whatever
\* the ratings and the time between them, the card has 1 <= difficulty <= 10,
\* scheduled_days >= 1.0 and stability > 0.
C1_Bounds ==
    Len(ratings) > 0 =>
        /\ Unit <= card.difficulty /\ card.difficulty <= 10 * Unit
        /\ card.scheduled_days >= Unit
        /\ card.stability > 0

\* Three lapses in a row bring stability down to the floor of 0.01 and the
\* interval down to its floor of one day.
C1_Witness ==
    /\ ratings = <<RATING_AGAIN, RATING_AGAIN, RATING_AGAIN>>
    /\ card.stability = Unit \div 100
    /\ card.scheduled_days = Unit

\* C2: along a chain of Good ratings from a new card, each scheduled_days is
\* >= the one before it, whatever time passes between the reviews.
C2_GoodNeverShrinks ==
    (Reviewed /\ Len(ratings) >= 2 /\ AllGood(ratings)) =>
        card.scheduled_days >= Before.scheduled_days

\* Four Good reviews, the last one after a pause, and the interval has grown.
C2_Witness ==
    /\ Reviewed
    /\ ratings = <<RATING_GOOD, RATING_GOOD, RATING_GOOD, RATING_GOOD>>
    /\ card.scheduled_days > Before.scheduled_days

\* C3: after several (two or more) Good reviews of a new card, one Again
\* review gives a scheduled_days strictly below the one the card had.
C3_AgainShrinks ==
    (/\ Reviewed
     /\ Len(ratings) >= 3
     /\ ratings[Len(ratings)] = RATING_AGAIN
     /\ AllGood(SubSeq(ratings, 1, Len(ratings) - 1))) =>
        card.scheduled_days < Before.scheduled_days

C3_Witness ==
    /\ Reviewed
    /\ ratings = <<RATING_GOOD, RATING_GOOD, RATING_GOOD, RATING_AGAIN>>
    /\ card.scheduled_days < Before.scheduled_days
    /\ Before.scheduled_days > 10 * Unit

\* An Again review of a card that is not new and has at least the stability
\* least returns a stability that is <= the card's and >= 0.01.
LapseWithin(least) ==
    (Reviewed /\ call.rating = RATING_AGAIN /\ ~is_new(Before)
        /\ Before.stability >= least) =>
        /\ card.stability <= Before.stability
        /\ card.stability >= Unit \div 100

C5_Bookkeeping ==
    /\ card.reps = CountIn(ratings, {RATING_HARD, RATING_GOOD, RATING_EASY})
    /\ card.lapses = CountIn(ratings, {RATING_AGAIN})
    /\ Reviewed =>
          \/ card.reps = Before.reps + 1 /\ card.lapses = Before.lapses
          \/ card.reps = Before.reps /\ card.lapses = Before.lapses + 1

C5_Witness ==
    /\ ratings = <<RATING_GOOD, RATING_GOOD, RATING_AGAIN>>
    /\ card.reps = 2
    /\ card.lapses = 1

\* C6: the first review of a new card with rating r returns
\* stability = w[r-1], difficulty = clamp(w4 - (r-3)*w5, 1, 10),
\* elapsed_days = 0, scheduled_days = next_interval(stability), and
\* reps = 0, lapses = 1 for Again, reps = 1, lapses = 0 otherwise.
C6_FirstReview ==
    (Reviewed /\ is_new(Before)) =>
        \A s \in schedulers :
            LET r == call.rating IN
            /\ card.stability = s.w[r]
            /\ card.difficulty = Max(Unit, Min(10 * Unit, s.w[5] - (r - 3) * s.w[6]))
            /\ card.elapsed_days = 0
            /\ card.scheduled_days = next_interval(s, s.w[r])
            /\ card.reps = (IF r = RATING_AGAIN THEN 0 ELSE 1)
            /\ card.lapses = (IF r = RATING_AGAIN THEN 1 ELSE 0)
            /\ card.last_review = now

C6_Witness ==
    /\ Reviewed /\ is_new(Before) /\ call.rating = RATING_AGAIN
    /\ card.stability = 4000 /\ card.difficulty = 68100
    /\ card.reps = 0 /\ card.lapses = 1

\* A review call with a rating outside 1..4: it returns no card and leaves
\* the caller's card as it was, and it raises the error named.
RejectedWith(error) ==
    (call.op = "review" /\ call.rating \notin RATING_AGAIN .. RATING_EASY) =>
        /\ call.raised = error
        /\ call.returned = <<>>
        /\ card = Before

\* C7 as stated: review with a rating outside {1,2,3,4} fails with
\* InvalidRatingError for every card, returns no CardState and leaves the
\* card unchanged.
C7_AsStated == RejectedWith("InvalidRatingError")

\* C7 as amended: review with a rating outside {1,2,3,4} fails with
\* ValueError for every card, new or not, returns no CardState and leaves
\* the card unchanged.
C7_InvalidRating == RejectedWith("ValueError")

C7_Witness ==
    /\ call.op = "review" /\ call.rating = 5 /\ ~is_new(Before)
    /\ call.raised = "ValueError" /\ call.returned = <<>>

\* A constructor call with a weight vector of a length other than 17 raises
\* the error named and builds nothing, and every scheduler that exists has 17
\* weights.
WrongLengthRaises(error) ==
    /\ (call.op = "__init__" /\ Len(call.arg[1]) # 17) =>
          call.raised = error /\ call.returned = <<>>
    /\ \A s \in schedulers : Len(s.w) = 17

\* C8 as stated: constructing the scheduler with a weight vector of a length
\* other than 17 fails with ConfigurationError, so no scheduler with such a
\* vector exists.
C8_AsStated == WrongLengthRaises("ConfigurationError")

\* C8 as amended: constructing the scheduler with a weight vector of a length
\* other than 17 fails with ValueError, so no scheduler with such a vector
\* exists to serve a review.
C8_WeightCount == WrongLengthRaises("ValueError")

C8_Witness ==
    /\ call.op = "__init__" /\ Len(call.arg[1]) = 18
    /\ call.raised = "ValueError" /\ schedulers = {}

\* C9 as stated: for every CardState and every rating in {1,2,3,4}, review
\* completes without an arithmetic exception.
C9_AsStated ==
    (call.op = "review" /\ call.rating \in RATING_AGAIN .. RATING_EASY) =>
        call.raised = None

\* No connection has a request in flight.
Quiet == \A p \in Connections : requests[p].pc \in {"idle", "200", "404", "422", "500"}

\* C10 as stated: submissions for one card, overlapping or not, lose no
\* update: once they are all answered, the card's one row counts every
\* accepted review.
C10_AsStated ==
    (Quiet /\ Len(vocabulary_progress) = 1) =>
        vocabulary_progress[1].review_count = accepted

\* ------------------------------------------------------------------------
\* services/api/src/routes/cultural.py: add a note's vocabulary item to the
\* review queue, next to POST /review
\* ------------------------------------------------------------------------

\* Table cultural_notes: the ids of its rows (no handler modelled writes it)
NoteId == 1
MissingNoteId == 2
cultural_notes == {NoteId}

\* The (note_id, vocab_id) paths a client posts to
AddInputs == { <<NoteId, ItemId>>, <<MissingNoteId, ItemId>>, <<NoteId, MissingItemId>> }

\* The states of a request that has been answered, and those of one in flight
Answered == {"idle", "200", "404", "422", "500"}
InFlight == {q \in Connections : requests[q].pc \notin Answered}

\* An add_vocabulary_to_srs request
AddRequest(pc, note, item, existing) ==
    [pc |-> pc, note |-> note, item |-> item, existing |-> existing]

\* first_review = datetime.now(UTC) + timedelta(minutes=10)
first_review(t) == t + Unit \div 144

\* The request arrives and add_vocabulary_to_srs starts.
AddVocabulary(p, note, item) ==
    /\ requests[p].pc \in Answered
    /\ accepted + Cardinality(InFlight) < MaxRequests
    /\ requests' = [requests EXCEPT ![p] = AddRequest("select_note", note, item, <<>>)]
    /\ UNCHANGED <<vocabulary_items, vocabulary_progress, accepted, now>>
    /\ UNCHANGED chainVars
    /\ UNCHANGED taskVars
    /\ UNCHANGED serviceVars

\* add_vocabulary_to_srs: "Verify note exists"
AddSelectNote(p) ==
    /\ requests[p].pc = "select_note"
    /\ requests' = [requests EXCEPT ![p].pc =
          IF requests[p].note \in cultural_notes THEN "select_vocab" ELSE "404"]
    /\ UNCHANGED <<vocabulary_items, vocabulary_progress, accepted, now>>
    /\ UNCHANGED chainVars
    /\ UNCHANGED taskVars
    /\ UNCHANGED serviceVars

\* add_vocabulary_to_srs: "Verify vocabulary item exists"
AddSelectVocab(p) ==
    /\ requests[p].pc = "select_vocab"
    /\ requests' = [requests EXCEPT ![p].pc =
          IF requests[p].item \in vocabulary_items THEN "select_existing" ELSE "404"]
    /\ UNCHANGED <<vocabulary_items, vocabulary_progress, accepted, now>>
    /\ UNCHANGED chainVars
    /\ UNCHANGED taskVars
    /\ UNCHANGED serviceVars

\* add_vocabulary_to_srs: "Check if already in user's review queue" (the
\* select)
AddSelectExisting(p) ==
    /\ requests[p].pc = "select_existing"
    /\ requests' = [requests EXCEPT ![p].pc = "insert",
                                    ![p].existing = SelectRows(requests[p].item)]
    /\ UNCHANGED <<vocabulary_items, vocabulary_progress, accepted, now>>
    /\ UNCHANGED chainVars
    /\ UNCHANGED taskVars
    /\ UNCHANGED serviceVars

\* add_vocabulary_to_srs: answer "already in queue", or insert the row of a
\* card that was never reviewed
AddInsert(p) ==
    /\ requests[p].pc = "insert"
    /\ vocabulary_progress' =
          IF requests[p].existing # <<>>
          THEN vocabulary_progress
          ELSE Append(vocabulary_progress,
                      ProgressRow(Len(vocabulary_progress) + 1, requests[p].item,
                                  initial_state(now), first_review(now), 0, 0, 0, now))
    /\ requests' = [requests EXCEPT ![p].pc = "200"]
    /\ accepted' = accepted + 1
    /\ UNCHANGED <<vocabulary_items, now>>
    /\ UNCHANGED chainVars
    /\ UNCHANGED taskVars
    /\ UNCHANGED serviceVars

NextQueue ==
    \/ \E p \in Connections, body \in SubmitInputs : Submit(p, body[1], body[2])
    \/ \E p \in Connections : SelectItem(p)
    \/ \E p \in Connections : SelectProgress(p)
    \/ \E p \in Connections : ReviewAndWrite(p)
    \/ \E p \in Connections, path \in AddInputs : AddVocabulary(p, path[1], path[2])
    \/ \E p \in Connections : AddSelectNote(p)
    \/ \E p \in Connections : AddSelectVocab(p)
    \/ \E p \in Connections : AddSelectExisting(p)
    \/ \E p \in Connections : AddInsert(p)

SpecQueue == InitSubmit /\ [][NextQueue]_vars

\* C11 as stated: after any interleaving of submit_review and
\* add-vocabulary calls, vocabulary_progress holds at most one row for the
\* (user, vocabulary item) pair.
C11_AsStated ==
    \A item \in vocabulary_items : Len(SelectRows(item)) <= 1

\* ------------------------------------------------------------------------
\* services/api/src/routes/vocabulary.py: POST /review, one request after
\* the other
\* ------------------------------------------------------------------------

\* submit_review from the arrival of the request to its answer, with no other
\* request in between. card is the handler's new_card, call.arg the CardState
\* it gave to review.
SubmitReview(item, rating) ==
    LET progress_result == SelectRows(item)
        has_row   == progress_result # <<>>
        prog      == progress_result[1]
        correct_increment == IF rating >= 3 THEN 1 ELSE 0
    IN
    /\ accepted < MaxRequests
    /\ IF rating < 1 \/ rating > 4
       THEN /\ call' = Call("submit_review", <<>>, rating, "422", <<>>)
            /\ UNCHANGED <<card, ratings, vocabulary_progress, accepted>>
       ELSE IF item \notin vocabulary_items
       THEN /\ call' = Call("submit_review", <<>>, rating, "404", <<>>)
            /\ UNCHANGED <<card, ratings, vocabulary_progress, accepted>>
       ELSE \E c \in {IF has_row THEN card_from_row(prog) ELSE initial_state(now)} :
            IF review_error(fsrs, c, rating) # None
            THEN /\ call' = Call("submit_review", <<c>>, rating, "500", <<>>)
                 /\ UNCHANGED <<card, ratings, vocabulary_progress, accepted>>
            ELSE \E new_card \in {review(fsrs, c, rating, now)} :
                 IF next_due_date_error(new_card) # None
                 THEN /\ call' = Call("submit_review", <<c>>, rating, "500", <<>>)
                      /\ UNCHANGED <<card, ratings, vocabulary_progress, accepted>>
                 ELSE \E next_due \in {next_due_date(new_card)} :
                      /\ vocabulary_progress' =
                           IF has_row
                           THEN [i \in 1 .. Len(vocabulary_progress) |->
                                    IF vocabulary_progress[i].id = prog.id
                                    THEN ProgressRow(prog.id, prog.vocabulary_item_id,
                                                     new_card, next_due,
                                                     prog.review_count + 1,
                                                     prog.correct_count + correct_increment,
                                                     rating, now)
                                    ELSE vocabulary_progress[i]]
                           ELSE Append(vocabulary_progress,
                                       ProgressRow(Len(vocabulary_progress) + 1, item,
                                                   new_card, next_due, 1,
                                                   correct_increment, rating, now))
                      /\ card' = new_card
                      /\ ratings' = Append(ratings, rating)
                      /\ call' = Call("submit_review", <<c>>, rating, None, <<new_card>>)
                      /\ accepted' = accepted + 1
    /\ UNCHANGED <<schedulers, now, vocabulary_items, requests>>
    /\ UNCHANGED taskVars
    /\ UNCHANGED serviceVars

NextSequence ==
    \/ \E body \in SubmitInputs : SubmitReview(body[1], body[2])
    \/ Tick

SpecSequence == InitSubmit /\ [][NextSequence]_vars

\* The latest request was a submission that stored a review.
Stored == call.op = "submit_review" /\ call.raised = None

\* Two CardStates agree in the fields the handler is to carry over.
SameMemory(c1, c2) ==
    /\ c1.stability = c2.stability
    /\ c1.difficulty = c2.difficulty
    /\ c1.scheduled_days = c2.scheduled_days
    /\ c1.reps = c2.reps
    /\ c1.lapses = c2.lapses
    /\ c1.last_review = c2.last_review

\* C12 as stated: the CardState that submit_review rebuilds from the stored
\* row equals the CardState the previous review returned, in stability,
\* difficulty, scheduled_days, reps, lapses and last_review.
C12_AsStated ==
    Stored => SameMemory(card_from_row(SelectRows(ItemId)[1]), card)

\* ------------------------------------------------------------------------
\* Threads reviewing different cards on the one scheduler of the module
\* ------------------------------------------------------------------------

\* The cards the threads hold: one never reviewed, one reviewed once with
\* Good and one reviewed once with Again
SharedCards ==
    { initial_state(0),
      review(fsrs, initial_state(0), RATING_GOOD, 0),
      review(fsrs, initial_state(0), RATING_AGAIN, 0) }

\* Mutant of frame: the locals of every call are kept in one place, as they
\* would be if they were attributes of the scheduler.
frame_of_scheduler(t) == 1

\* The stack frame of the call that thread t runs: each call has its own.
frame(t) == t

\* _review_existing: the CardState it returns, from its local variables
review_existing_result(s, c, rating, at, new_difficulty, new_stability) ==
    LET elapsed_days == Max(at - c.last_review, 0)
        interval     == next_interval(s, new_stability)
        adjusted     ==
            IF rating = RATING_HARD
            THEN Max(Mul(interval, (8 * Unit) \div 10), Unit)
            ELSE IF rating = RATING_EASY
            THEN Mul(interval, Unit + Mul(W(s, 16) - Unit, Unit \div 2))
            ELSE interval
    IN  CardState(new_stability, new_difficulty, elapsed_days,
                  Max(Round2(adjusted), Unit),
                  next_reps(c, rating), next_lapses(c, rating), at)

\* _review_new: the CardState it returns, from its local variables
review_new_result(s, rating, at, stability, difficulty) ==
    CardState(stability, difficulty, 0, next_interval(s, stability),
              IF rating = RATING_AGAIN THEN 0 ELSE 1,
              IF rating = RATING_AGAIN THEN 1 ELSE 0, at)

\* Thread t calls review(c, rating) in a new stack frame: the rating is
\* checked and the clock read.
CallReview(t, c, rating) ==
    /\ tasks[t].pc \in {"idle", "done", "raised"}
    /\ tasks' = [tasks EXCEPT ![t] =
          [pc |-> IF rating_error(rating) # None THEN "raised" ELSE "called",
           card |-> <<c>>, given |-> <<c>>, rating |-> rating, now |-> now,
           result |-> <<>>]]
    /\ frames' = [frames EXCEPT ![frame(t)] = NoLocals]
    /\ UNCHANGED <<schedulers, card, now, ratings, call>>
    /\ UNCHANGED storeVars
    /\ UNCHANGED serviceVars

\* _review_new: stability; _review_existing: elapsed_days, r, new_difficulty
FirstLocals(t, s) ==
    LET c == tasks[t].card[1] IN
    /\ tasks[t].pc = "called"
    /\ frames' = [frames EXCEPT ![frame(t)] =
          IF is_new(c)
          THEN [@ EXCEPT !.stability = initial_stability(s, tasks[t].rating)]
          ELSE [@ EXCEPT !.r = retrievability(c, Max(tasks[t].now - c.last_review, 0)),
                         !.difficulty = next_difficulty(s, c.difficulty, tasks[t].rating)]]
    /\ tasks' = [tasks EXCEPT ![t].pc = "first"]
    /\ UNCHANGED <<schedulers, card, now, ratings, call>>
    /\ UNCHANGED storeVars
    /\ UNCHANGED serviceVars

\* _review_new: difficulty; _review_existing: new_stability
SecondLocals(t, s) ==
    LET c == tasks[t].card[1]
        l == frames[frame(t)]
        error == IF is_new(c) THEN None
                 ELSE IF tasks[t].rating = RATING_AGAIN
                 THEN OrElse(stability_after_failure_error(s, l.difficulty),
                             stability_after_failure_base_error(s, c.stability))
                 ELSE stability_after_success_error(s, c.stability)
    IN
    /\ tasks[t].pc = "first"
    /\ IF error # None
       THEN /\ tasks' = [tasks EXCEPT ![t].pc = "raised"]
            /\ UNCHANGED frames
       ELSE /\ frames' = [frames EXCEPT ![frame(t)] =
                  IF is_new(c)
                  THEN [@ EXCEPT !.difficulty = initial_difficulty(s, tasks[t].rating)]
                  ELSE [@ EXCEPT !.stability =
                           IF tasks[t].rating = RATING_AGAIN
                           THEN stability_after_failure(s, c.stability, l.difficulty, l.r)
                           ELSE stability_after_success(s, c.stability, l.difficulty, l.r,
                                                        tasks[t].rating)]]
            /\ tasks' = [tasks EXCEPT ![t].pc = "second"]
    /\ UNCHANGED <<schedulers, card, now, ratings, call>>
    /\ UNCHANGED storeVars
    /\ UNCHANGED serviceVars

\* The interval is computed and the new CardState returned.
Return(t, s) ==
    LET c == tasks[t].card[1]
        l == frames[frame(t)]
    IN
    /\ tasks[t].pc = "second"
    /\ IF next_interval_error(s, l.stability) # None
       THEN tasks' = [tasks EXCEPT ![t].pc = "raised"]
       ELSE tasks' = [tasks EXCEPT ![t].pc = "done",
                                   ![t].result =
               IF is_new(c)
               THEN <<review_new_result(s, tasks[t].rating, tasks[t].now,
                                        l.stability, l.difficulty)>>
               ELSE <<review_existing_result(s, c, tasks[t].rating, tasks[t].now,
                                             l.difficulty, l.stability)>>]
    /\ UNCHANGED <<frames, schedulers, card, now, ratings, call>>
    /\ UNCHANGED storeVars
    /\ UNCHANGED serviceVars

NextShared ==
    \/ \E t \in Threads, c \in SharedCards, rating \in RatingInputs :
          CallReview(t, c, rating)
    \/ \E t \in Threads, s \in schedulers : FirstLocals(t, s)
    \/ \E t \in Threads, s \in schedulers : SecondLocals(t, s)
    \/ \E t \in Threads, s \in schedulers : Return(t, s)
    \/ Tick

SpecShared == InitSubmit /\ [][NextShared]_vars

\* C13: review leaves its input CardState and the scheduler's weights and
\* desired_retention as they were and returns a new CardState, and a review
\* that ran interleaved with reviews of other cards on the same scheduler
\* returns what it returns when it runs alone.
C13_NoSharedState ==
    /\ schedulers = {FSRSScheduler(DEFAULT_WEIGHTS, DEFAULT_RETENTION)}
    /\ \A t \in Threads :
          /\ tasks[t].card = tasks[t].given
          /\ tasks[t].pc = "done" =>
                tasks[t].result =
                    <<review(fsrs, tasks[t].given[1], tasks[t].rating, tasks[t].now)>>

\* A review of a card with a lapse has returned while a review of another
\* card, called before it returned, is halfway.
C13_Witness ==
    /\ tasks[1].pc = "done" /\ tasks[1].rating = RATING_EASY
    /\ tasks[1].given[1].lapses = 1
    /\ tasks[1].result[1].reps = 1
    /\ tasks[2].pc = "first" /\ tasks[2].given[1].reps = 1
    /\ tasks[2].now < tasks[1].now

\* ------------------------------------------------------------------------
\* Rejected review requests
\* ------------------------------------------------------------------------

\* The POST /review requests that have arrived on a connection
IsReview(q) == q.pc # "idle" /\ "rating" \in DOMAIN q

\* A request with a rating outside 1..4 is answered 422 and has read no
\* table; a request for an item that does not exist gets no further than the
\* select on vocabulary_items.
RefusedEarly ==
    \A p \in Connections :
        LET q == requests[p] IN
        IsReview(q) =>
            /\ q.rating \notin RATING_AGAIN .. RATING_EASY =>
                  q.pc = "422" /\ q.progress_result = <<>>
            /\ (q.rating \in RATING_AGAIN .. RATING_EASY
                  /\ q.item \notin vocabulary_items) =>
                  q.pc \in {"select_item", "404"} /\ q.progress_result = <<>>

\* The step that answers a request 422 or 404 leaves vocabulary_progress as
\* it was.
RefusalWritesNothing ==
    \A p \in Connections :
        (requests'[p] # requests[p] /\ requests'[p].pc \in {"422", "404"}) =>
            vocabulary_progress' = vocabulary_progress

\* C14: a review request with a rating outside 1..4 is refused with 422
\* before any table is read, a review request for a vocabulary item that does
\* not exist is refused with 404, and neither inserts or updates a row of
\* vocabulary_progress.
C14_RejectedWritesNothing == []RefusedEarly /\ [][RefusalWritesNothing]_vars

\* One request was answered 404 and one 422 while the card's row, written by
\* an accepted review, is as that review left it.
C14_Witness ==
    /\ requests[1].pc = "404" /\ requests[1].item = MissingItemId
    /\ requests[2].pc = "422" /\ requests[2].rating = 0
    /\ Len(vocabulary_progress) = 1
    /\ vocabulary_progress[1].review_count = accepted
    /\ accepted = 1

\* ------------------------------------------------------------------------
\* The scheduler's functions applied to a card the caller keeps
\* ------------------------------------------------------------------------

\* The desired_retention values given to the constructor
RetentionInputs == {(9 * Unit) \div 10, (8 * Unit) \div 10, (7 * Unit) \div 10}

\* The elapsed_days values given to retrievability
ElapsedInputs == {0, Unit \div 2, Unit, 2 * Unit, 9 * Unit, 60 * Unit, 365 * Unit}

\* The cards the caller holds: one never reviewed, and reviewed ones of many
\* stabilities and intervals, last reviewed at the clock's origin or ten days
\* before the end of year 9999
PureCards ==
    { initial_state(0) } \cup
    { CardState(st, (493 * Unit) \div 100, 0, sd, 1, 0, lr) :
        st \in {0 - Unit, 0, Unit \div 100, (4 * Unit) \div 10, Unit,
                (24 * Unit) \div 10, (58 * Unit) \div 10, 100 * Unit},
        sd \in {Unit, (24 * Unit) \div 10, 100 * Unit},
        lr \in {0, DatetimeMax - 10 * Unit} }

InitPure ==
    /\ schedulers = {FSRSScheduler(DEFAULT_WEIGHTS, r) : r \in RetentionInputs}
    /\ now = 0
    /\ card \in PureCards
    /\ ratings = <<>>
    /\ call = Call(None, <<>>, 0, None, <<>>)
    /\ StoreInit
    /\ TasksInit
    /\ ServicesInit

\* due = scheduler.next_due_date(card)
NextDueDate(s) ==
    /\ call' = IF next_due_date_error(card) # None
               THEN Call("next_due_date", <<card, s>>, 0, next_due_date_error(card), <<>>)
               ELSE Call("next_due_date", <<card, s>>, 0, None, <<next_due_date(card)>>)
    /\ UNCHANGED <<schedulers, card, now, ratings>>
    /\ UNCHANGED storeVars
    /\ UNCHANGED taskVars
    /\ UNCHANGED serviceVars

\* r = scheduler.retrievability(card, elapsed_days)
Retrievability(s, elapsed_days) ==
    /\ call' = Call("retrievability", <<card, elapsed_days>>, 0, None,
                    <<retrievability(card, elapsed_days)>>)
    /\ UNCHANGED <<schedulers, card, now, ratings>>
    /\ UNCHANGED storeVars
    /\ UNCHANGED taskVars
    /\ UNCHANGED serviceVars

\* r = scheduler.retrievability(card): elapsed_days is taken from the clock
RetrievabilityNow(s) ==
    /\ call' = Call("retrievability", <<card, Max(now - card.last_review, 0)>>, 0, None,
                    <<retrievability(card, Max(now - card.last_review, 0))>>)
    /\ UNCHANGED <<schedulers, card, now, ratings>>
    /\ UNCHANGED storeVars
    /\ UNCHANGED taskVars
    /\ UNCHANGED serviceVars

\* interval = scheduler._next_interval(card.stability)
NextInterval(s) ==
    /\ call' = IF next_interval_error(s, card.stability) # None
               THEN Call("_next_interval", <<card, s>>, 0,
                         next_interval_error(s, card.stability), <<>>)
               ELSE Call("_next_interval", <<card, s>>, 0, None,
                         <<next_interval(s, card.stability)>>)
    /\ UNCHANGED <<schedulers, card, now, ratings>>
    /\ UNCHANGED storeVars
    /\ UNCHANGED taskVars
    /\ UNCHANGED serviceVars

\* result = scheduler.review(card, rating): the caller keeps card
ReviewKept(s, rating) ==
    /\ call' = IF review_error(s, card, rating) # None
               THEN Call("review", <<card, s>>, rating, review_error(s, card, rating), <<>>)
               ELSE Call("review", <<card, s>>, rating, None,
                         <<review(s, card, rating, now)>>)
    /\ UNCHANGED <<schedulers, card, now, ratings>>
    /\ UNCHANGED storeVars
    /\ UNCHANGED taskVars
    /\ UNCHANGED serviceVars

NextPure ==
    \/ \E s \in schedulers : NextDueDate(s)
    \/ \E s \in schedulers, elapsed_days \in ElapsedInputs : Retrievability(s, elapsed_days)
    \/ \E s \in schedulers : RetrievabilityNow(s)
    \/ \E s \in schedulers : NextInterval(s)
    \/ \E s \in schedulers, rating \in RATING_AGAIN .. RATING_EASY : ReviewKept(s, rating)
    \/ Tick

SpecPure == InitPure /\ [][NextPure]_vars

\* C15 as stated: for every card, next_due_date(card) is card.last_review +
\* scheduled_days, computed from the card alone, and the card is left as it
\* was.
C15_AsStated ==
    call.op = "next_due_date" =>
        /\ call.raised = None
        /\ call.returned = <<call.arg[1].last_review + call.arg[1].scheduled_days>>
        /\ card = call.arg[1]

\* A call of retrievability returned 0 for a card with stability <= 0; for
\* stability > 0 it returned 1 at elapsed_days = 0 and a value in (0, 1].
RetrievabilityInRange ==
    call.op = "retrievability" =>
        LET c == call.arg[1]
            r == call.returned[1]
        IN  IF c.stability <= 0 THEN r = 0
            ELSE /\ call.arg[2] = 0 => r = Unit
                 /\ 0 < r /\ r <= Unit

\* Of two calls of retrievability in a row for a card with stability > 0, the
\* one with the larger elapsed_days returned the smaller value.
RetrievabilityFalls ==
    (/\ call.op = "retrievability" /\ call'.op = "retrievability"
     /\ card.stability > 0
     /\ call'.arg[2] > call.arg[2]) =>
        call'.returned[1] < call.returned[1]

\* C16: retrievability returns exactly 0 when stability <= 0; for a fixed
\* stability > 0 it is 1 at elapsed_days = 0, stays in (0, 1] and is strictly
\* decreasing in elapsed_days.
C16_ForgettingCurve == []RetrievabilityInRange /\ [][RetrievabilityFalls]_vars

\* After nine times the stability in days, recall is even odds.
C16_Witness ==
    /\ call.op = "retrievability"
    /\ call.arg[1].stability = Unit /\ call.arg[2] = 9 * Unit
    /\ call.returned = <<Unit \div 2>>

\* C17: for a stability S > 0 whose interval before the floor,
\* 9 * S * (1 / desired_retention - 1), is at least one day, the retrievability
\* of a card of stability S after next_interval(S) days is desired_retention,
\* up to the rounding of the interval to 2 decimals; when S <= 0 or the
\* interval before the floor is below one day, next_interval returns 1.0.
C17_IntervalInvertsCurve ==
    (call.op = "_next_interval" /\ call.raised = None) =>
        LET c == call.arg[1]
            s == call.arg[2]
            interval == call.returned[1]
        IN  IF c.stability <= 0 THEN interval = Unit
            ELSE IF Mul(Mul(9 * Unit, c.stability),
                        Div(Unit, s.desired_retention) - Unit) < Unit
            THEN interval = Unit
            ELSE Abs(retrievability(c, interval) - s.desired_retention)
                     <= (3 * Unit) \div 1000

\* Retention 0.8 and stability 2.4 give an interval of 5.4 days.
C17_Witness ==
    /\ call.op = "_next_interval" /\ call.raised = None
    /\ call.arg[1].stability = (24 * Unit) \div 10
    /\ call.arg[2].desired_retention = (8 * Unit) \div 10
    /\ call.returned = <<(54 * Unit) \div 10>>
    /\ retrievability(call.arg[1], call.returned[1]) = (8 * Unit) \div 10

\* Of two calls of _next_interval in a row for the same stability, the one
\* of the scheduler with the lower desired_retention returned no shorter an
\* interval.
LowerRetentionNeverShorter ==
    (/\ call.op = "_next_interval" /\ call'.op = "_next_interval"
     /\ call.raised = None /\ call'.raised = None
     /\ call'.arg[2].desired_retention < call.arg[2].desired_retention) =>
        call'.returned[1] >= call.returned[1]

\* A never reviewed card reviewed with Good by the scheduler of retention 0.9
\* and then by the one of retention 0.8: the second scheduled_days is longer.
LowerRetentionLongerFirstInterval ==
    (/\ call.op = "review" /\ call'.op = "review"
     /\ is_new(card)
     /\ call.rating = RATING_GOOD /\ call'.rating = RATING_GOOD
     /\ call.arg[2].desired_retention = (9 * Unit) \div 10
     /\ call'.arg[2].desired_retention = (8 * Unit) \div 10) =>
        call'.returned[1].scheduled_days > call.returned[1].scheduled_days

\* C18: two schedulers that differ only in desired_retention, 0.9 and 0.8,
\* reviewing the same never reviewed card with Good: the one with 0.8 gives
\* the longer scheduled_days; and for equal stability the interval is never
\* shorter under the lower desired_retention.
C18_RetentionSensitivity ==
    [][LowerRetentionNeverShorter /\ LowerRetentionLongerFirstInterval]_vars

\* The scheduler of retention 0.8 schedules the first Good review 5.4 days
\* ahead (2.4 days under retention 0.9).
C18_Witness ==
    /\ call.op = "review" /\ is_new(call.arg[1]) /\ call.rating = RATING_GOOD
    /\ call.arg[2].desired_retention = (8 * Unit) \div 10
    /\ call.returned[1].scheduled_days = (54 * Unit) \div 10

\* C19: of two first reviews of a never reviewed card by one scheduler with
\* the default weights, the one with the higher rating returns the higher
\* stability; Again returns a higher difficulty than Easy; and Easy returns a
\* scheduled_days at least that of Good.
C19_FirstReviewOrder ==
    [][(/\ call.op = "review" /\ call'.op = "review"
        /\ is_new(card)
        /\ call.arg[2] = call'.arg[2]) =>
           LET lo == call.returned[1]
               hi == call'.returned[1]
           IN  /\ call'.rating > call.rating => hi.stability > lo.stability
               /\ (call.rating = RATING_AGAIN /\ call'.rating = RATING_EASY) =>
                     lo.difficulty > hi.difficulty
               /\ (call.rating = RATING_GOOD /\ call'.rating = RATING_EASY) =>
                     hi.scheduled_days >= lo.scheduled_days]_vars

\* The first review with Easy under the default retention: stability 5.8,
\* difficulty 3.99, to come back in 5.8 days.
C19_Witness ==
    /\ call.op = "review" /\ is_new(call.arg[1]) /\ call.rating = RATING_EASY
    /\ call.arg[2].desired_retention = DEFAULT_RETENTION
    /\ call.returned[1].stability = (58 * Unit) \div 10
    /\ call.returned[1].difficulty = (399 * Unit) \div 100
    /\ call.returned[1].scheduled_days = (58 * Unit) \div 10

\* The card has scheduled_days >= 1 and 1 <= difficulty <= 10.
WithinRanges(c) ==
    /\ c.scheduled_days >= Unit
    /\ Unit <= c.difficulty /\ c.difficulty <= 10 * Unit

\* C20 as stated: every CardState of a card's life, from the one that
\* initial_state() creates through every later review, has scheduled_days >= 1
\* and 1 <= difficulty <= 10.
C20_AsStated == WithinRanges(card)

\* C20 as amended: the CardState that initial_state() creates has
\* scheduled_days = 0 and difficulty = 0, and every CardState that a review
\* returns, from the first review on, has scheduled_days >= 1 and
\* 1 <= difficulty <= 10.
C20_Lifecycle ==
    /\ Len(ratings) = 0 =>
          /\ card.scheduled_days = 0 /\ card.difficulty = 0
          /\ card.stability = 0 /\ is_new(card)
    /\ Reviewed => WithinRanges(card)

\* The first review takes the card from the all-zero state into the ranges.
C20_Witness ==
    /\ Reviewed /\ Len(ratings) = 1
    /\ Before.scheduled_days = 0 /\ Before.difficulty = 0
    /\ WithinRanges(card)

\* ------------------------------------------------------------------------
\* Growth of stability under success
\* ------------------------------------------------------------------------

\* The ratings of a successful recall
Success == {RATING_HARD, RATING_GOOD, RATING_EASY}

\* C21: for every card that is not new and has stability > 0, a Hard, Good or
\* Easy review returns a stability >= the card's stability, at any elapsed
\* time.
C21_SuccessNeverShrinks ==
    (Reviewed /\ call.rating \in Success /\ ~is_new(Before)
        /\ Before.stability > 0) =>
        card.stability >= Before.stability

\* A Hard review two months late of a card with a stability of 2.4 days: the
\* stability grows, and a review with no time elapsed would have kept it.
C21_Witness ==
    /\ Reviewed /\ call.rating = RATING_HARD /\ ~is_new(Before)
    /\ Before.stability = (24 * Unit) \div 10
    /\ now = 60 * Unit
    /\ card.stability > Before.stability

\* ------------------------------------------------------------------------
\* The Hard penalty and the Easy bonus
\* ------------------------------------------------------------------------

\* The latest call was a review with the given rating of a card that was not
\* new, and it returned a card.
ReviewedExisting(rating) ==
    Reviewed /\ call.rating = rating /\ ~is_new(Before)

\* The scheduled_days of a Hard review: max(0.8 * next_interval(new
\* stability), 1.0) rounded to 2 decimals.
HardInterval ==
    ReviewedExisting(RATING_HARD) =>
        \A s \in schedulers :
            card.scheduled_days =
                Round2(Max(Mul(next_interval(s, card.stability), (8 * Unit) \div 10), Unit))

\* FSRSScheduler._stability_after_success: new_s = stability * inner, before
\* the Hard penalty, the Easy bonus and the floor
stability_of_success(s, stability, difficulty, r) ==
    Mul(stability,
        Mul(Mul(Mul(Exp(W(s, 8)), 11 * Unit - difficulty),
                Pow(stability, -W(s, 10))),
            Exp(Mul(W(s, 11), Unit - r)) - Unit) + Unit)

\* An Easy review returns the stability of success times w16, floored at
\* 0.01, and the interval of that stability times 1 + (w16 - 1) * 0.5,
\* rounded to 2 decimals and floored at one day.
EasyBonus ==
    ReviewedExisting(RATING_EASY) =>
        \A s \in schedulers :
            /\ card.stability =
                   Max(Mul(stability_of_success(s, Before.stability, card.difficulty,
                               retrievability(Before, card.elapsed_days)),
                           W(s, 16)), Unit \div 100)
            /\ card.scheduled_days =
                   Max(Round2(Mul(next_interval(s, card.stability),
                                  Unit + (W(s, 16) - Unit) \div 2)), Unit)

\* C22 as stated: a Hard review of a card that is not new never raises
\* stability above 1.2 times the prior stability.
C22_AsStated ==
    ReviewedExisting(RATING_HARD) =>
        card.stability <= Mul(Before.stability, (12 * Unit) \div 10)

\* C22 as amended: a Hard review of a card that is not new never raises
\* stability above the larger of 1.2 times the prior stability and the floor
\* 0.01; its scheduled_days is max(0.8 * next_interval(new stability), 1.0)
\* rounded to 2 decimals; an Easy review multiplies the stability of success
\* by w16 and the interval by 1 + (w16 - 1) * 0.5.
C22_HardPenaltyEasyBonus ==
    /\ ReviewedExisting(RATING_HARD) =>
           card.stability <= Max(Mul(Before.stability, (12 * Unit) \div 10), Unit \div 100)
    /\ HardInterval
    /\ EasyBonus

\* A Hard review two months late of a card with a stability of 2.4 days: the
\* cap of 1.2 decides the stability, 2.88, and the interval is 0.8 times the
\* 2.88 days of that stability.
C22_Witness ==
    /\ ReviewedExisting(RATING_HARD)
    /\ Before.stability = (24 * Unit) \div 10
    /\ now = 60 * Unit
    /\ card.stability = (288 * Unit) \div 100
    /\ card.scheduled_days = (230 * Unit) \div 100

\* An Easy review two months late of the same card.
C22_WitnessEasy ==
    /\ ReviewedExisting(RATING_EASY)
    /\ Before.stability = (24 * Unit) \div 10
    /\ now = 60 * Unit
    /\ card.stability > Mul(Before.stability, W(fsrs, 16))

\* ------------------------------------------------------------------------
\* Good reviews repeated on cards of every difficulty
\* ------------------------------------------------------------------------

\* The difficulties of the cards: 1.00, 1.01, ... 10.00, and the values next
\* to the mean w[4]
DifficultyGrid ==
    { Unit + k * (Unit \div 100) : k \in 0 .. 900 } \cup
    { W(fsrs, 4) + k : k \in -20 .. 20 }

\* Cards reviewed once before, of every difficulty
InitRepeat ==
    /\ schedulers = {fsrs}
    /\ now = 0
    /\ card \in { CardState((24 * Unit) \div 10, d, 0, (24 * Unit) \div 10, 1, 0, 0) :
                    d \in DifficultyGrid }
    /\ ratings = <<>>
    /\ call = Call(None, <<>>, 0, None, <<>>)
    /\ StoreInit
    /\ TasksInit
    /\ ServicesInit

\* card = scheduler.review(card, RATING_GOOD), again and again
RepeatGood(s, gap) == Review(s, RATING_GOOD, gap)

NextRepeat == \E s \in schedulers : RepeatGood(s, 2 * Unit)

SpecRepeat == InitRepeat /\ [][NextRepeat]_vars

\* C23: a Good review of a card that is not new and has a difficulty D in
\* [1, 10] returns a difficulty D' with |D' - w4| <= |D - w4|, so that along
\* repeated Good reviews difficulty never moves away from w4.
C23_MeanReversion ==
    (ReviewedExisting(RATING_GOOD)
        /\ Before.difficulty >= Unit /\ Before.difficulty <= 10 * Unit) =>
        Abs(card.difficulty - W(fsrs, 4)) <= Abs(Before.difficulty - W(fsrs, 4))

\* Four Good reviews of a card of difficulty 10 bring it within 0.01 of w4.
C23_Witness ==
    /\ ReviewedExisting(RATING_GOOD)
    /\ Len(ratings) = 4
    /\ Before.difficulty > W(fsrs, 4)
    /\ card.difficulty < Before.difficulty
    /\ card.difficulty - W(fsrs, 4) < Unit \div 100
    /\ card.difficulty > W(fsrs, 4)

\* ------------------------------------------------------------------------
\* review applied with every rating to one card the caller keeps
\* ------------------------------------------------------------------------

\* The cards the caller holds: new ones and reviewed ones, of several
\* stabilities and difficulties, with an elapsed_days field of 0 or 5 days,
\* last reviewed two months ago, three days ago, at the clock's origin or
\* three days after it (a last_review in the future)
KeptCards ==
    { CardState(st, d, e, (24 * Unit) \div 10, reps, 0, lr) :
        st \in {Unit \div 200, Unit \div 100, (4 * Unit) \div 10,
                (24 * Unit) \div 10, 100 * Unit},
        d \in {Unit, (493 * Unit) \div 100, 10 * Unit},
        e \in {0, 5 * Unit},
        reps \in {0, 1},
        lr \in {0 - 60 * Unit, 0 - 3 * Unit, 0, 3 * Unit} }

InitKept ==
    /\ schedulers = {fsrs}
    /\ now = 0
    /\ card \in KeptCards
    /\ ratings = <<>>
    /\ call = Call(None, <<>>, 0, None, <<>>)
    /\ StoreInit
    /\ TasksInit
    /\ ServicesInit

NextKept ==
    \/ \E s \in schedulers, rating \in RATING_AGAIN .. RATING_EASY : ReviewKept(s, rating)
    \/ Tick

SpecKept == InitKept /\ [][NextKept]_vars

\* The card returned by the latest call of review.
After == call.returned[1]

\* C24: the card returned by review has elapsed_days = 0 on a first review
\* and otherwise max(now - card.last_review, 0) in days, now being the time
\* of the review (the last_review of the card returned), whatever the
\* elapsed_days field of the card given, and it is >= 0 also when
\* card.last_review lies in the future.
C24_ElapsedRecomputed ==
    Reviewed =>
        /\ After.elapsed_days =
               IF is_new(Before) THEN 0
               ELSE Max(After.last_review - Before.last_review, 0)
        /\ After.elapsed_days >= 0

\* A review, one day after the clock's origin, of a card with an
\* elapsed_days field of 5 days that was last reviewed three days before the
\* origin: the card returned has elapsed_days = 4.
C24_Witness ==
    /\ Reviewed /\ ~is_new(Before)
    /\ Before.elapsed_days = 5 * Unit
    /\ Before.last_review = 0 - 3 * Unit
    /\ After.last_review = Unit
    /\ After.elapsed_days = 4 * Unit

\* A review of a card whose last_review lies three days ahead of the clock.
C24_WitnessFuture ==
    /\ Reviewed /\ ~is_new(Before)
    /\ Before.last_review > After.last_review
    /\ Before.elapsed_days = 5 * Unit
    /\ After.elapsed_days = 0

\* ------------------------------------------------------------------------
\* The order of the ratings
\* ------------------------------------------------------------------------

\* The card that review returns for the card given to the latest call, at
\* the instant of that call, with the rating g.
ResultOf(g) ==
    IF g = call.rating THEN After ELSE review(fsrs, Before, g, After.last_review)

\* C28: for one card that is not new, reviewed at one instant, scheduled_days
\* is ordered Hard <= Good <= Easy and Again <= Good, and stability is ordered
\* Again <= Hard <= Good <= Easy.
C28_RatingOrder ==
    (Reviewed /\ ~is_new(Before)) =>
        /\ ResultOf(RATING_HARD).scheduled_days <= ResultOf(RATING_GOOD).scheduled_days
        /\ ResultOf(RATING_GOOD).scheduled_days <= ResultOf(RATING_EASY).scheduled_days
        /\ ResultOf(RATING_AGAIN).scheduled_days <= ResultOf(RATING_GOOD).scheduled_days
        /\ ResultOf(RATING_AGAIN).stability <= ResultOf(RATING_HARD).stability
        /\ ResultOf(RATING_HARD).stability <= ResultOf(RATING_GOOD).stability
        /\ ResultOf(RATING_GOOD).stability <= ResultOf(RATING_EASY).stability

\* A Hard review, two months late, of a card with a stability of 2.4 days
\* and a difficulty of 4.93: the four ratings give four different stabilities
\* and Again, Hard, Good and Easy give four different intervals.
C28_Witness ==
    /\ Reviewed /\ ~is_new(Before) /\ call.rating = RATING_HARD
    /\ Before.stability = (24 * Unit) \div 10
    /\ Before.last_review = 0 - 60 * Unit
    /\ ResultOf(RATING_AGAIN).stability < After.stability
    /\ After.stability < ResultOf(RATING_GOOD).stability
    /\ ResultOf(RATING_GOOD).stability < ResultOf(RATING_EASY).stability
    /\ After.scheduled_days < ResultOf(RATING_GOOD).scheduled_days
    /\ ResultOf(RATING_GOOD).scheduled_days < ResultOf(RATING_EASY).scheduled_days

\* ------------------------------------------------------------------------
\* services/api/src/middleware/rate_limiter.py
\* ------------------------------------------------------------------------

DEFAULT_RATE == 100
DEFAULT_WINDOW_SECONDS == 60

\* Bound of the limiter model: the last second of the monotonic clock
MaxSeconds == 30

\* The users: one that sends requests without end and one that sends few
Flooder == "flooder"
Visitor == "visitor"
UserIds == {Flooder, Visitor}

\* The seconds that may pass between two requests
ClockSteps == {30 * Unit}

\* RateLimiter(): max_requests, window_seconds and _refill_rate
RateLimiter(max_requests, window_seconds) ==
    [max_requests |-> max_requests, window_seconds |-> window_seconds,
     refill_rate |-> Div(max_requests * Unit, window_seconds * Unit)]

\* The module-level singleton
limiter == RateLimiter(DEFAULT_RATE, DEFAULT_WINDOW_SECONDS)

\* _Bucket(tokens=..., max_tokens=..., refill_rate=...)
Bucket(tokens, max_tokens, refill_rate, last_refill) ==
    [tokens |-> tokens, max_tokens |-> max_tokens, refill_rate |-> refill_rate,
     last_refill |-> last_refill]

\* RateLimiter._get_bucket: the user's bucket, a full one at the first call
get_bucket(user_id) ==
    IF user_id \in DOMAIN buckets THEN buckets[user_id]
    ELSE Bucket(limiter.max_requests * Unit, limiter.max_requests * Unit,
                limiter.refill_rate, monotonic)

\* _Bucket.consume, the refill: tokens and last_refill after it
refilled(b) ==
    [b EXCEPT !.tokens = Min(b.max_tokens,
                             b.tokens + Mul(monotonic - b.last_refill, b.refill_rate)),
              !.last_refill = monotonic]

\* _Bucket.consume: True if a token is there to take
consume(b) == refilled(b).tokens >= Unit

\* _Bucket.retry_after and the int(...) + 1 of check, in whole seconds
retry_after(b) ==
    IF b.tokens >= Unit THEN 1
    ELSE Div(Unit - b.tokens, b.refill_rate) \div Unit + 1

\* The requests of the user let through at the time at
GrantedAt(user_id, at) ==
    IF <<user_id, at>> \in DOMAIN granted THEN granted[<<user_id, at>>] ELSE 0

RECURSIVE SumGranted(_, _)
\* The number of requests of the user let through at the times of the set.
SumGranted(user_id, times) ==
    IF times = {} THEN 0
    ELSE LET at == CHOOSE x \in times : TRUE
         IN  GrantedAt(user_id, at) + SumGranted(user_id, times \ {at})

\* The times at which some request was let through
GrantTimes == { k[2] : k \in DOMAIN granted }

\* limiter.check(user.id): a token of the user's bucket is consumed, or HTTP
\* 429 is raised with a Retry-After header. The visitor sends MaxRequests
\* requests at most.
Check(user_id) ==
    /\ user_id = Visitor => SumGranted(Visitor, GrantTimes) < MaxRequests
    /\ \E b \in {refilled(get_bucket(user_id))} :
         IF consume(get_bucket(user_id))
         THEN /\ buckets' = (user_id :> [b EXCEPT !.tokens = b.tokens - Unit]) @@ buckets
              /\ granted' = (<<user_id, monotonic>> :> GrantedAt(user_id, monotonic) + 1) @@ granted
              /\ call' = Call("check", <<user_id>>, 0, None, <<>>)
         ELSE /\ buckets' = (user_id :> b) @@ buckets
              /\ call' = Call("check", <<user_id>>, 0, "429", <<retry_after(b)>>)
              /\ UNCHANGED granted
    /\ UNCHANGED <<monotonic, schedulers, card, now, ratings>>
    /\ UNCHANGED storeVars
    /\ UNCHANGED taskVars
    /\ UNCHANGED examVars
    /\ UNCHANGED jobVars

\* Time passes on the monotonic clock.
Advance(seconds) ==
    /\ monotonic + seconds <= MaxSeconds * Unit
    /\ monotonic' = monotonic + seconds
    /\ UNCHANGED <<buckets, granted>>
    /\ UNCHANGED chainVars
    /\ UNCHANGED now
    /\ UNCHANGED storeVars
    /\ UNCHANGED taskVars
    /\ UNCHANGED examVars
    /\ UNCHANGED jobVars

NextLimiter ==
    \/ \E user_id \in UserIds : Check(user_id)
    \/ \E seconds \in ClockSteps : Advance(seconds)

SpecLimiter == InitSubmit /\ [][NextLimiter]_vars

\* The number of requests of the user let through in the window of
\* DEFAULT_WINDOW_SECONDS seconds that starts at the time from
InWindow(user_id, from) ==
    SumGranted(user_id, { at \in GrantTimes :
        at >= from /\ at < from + DEFAULT_WINDOW_SECONDS * Unit })

\* C25 as stated: with the default policy no user is let through more than
\* 100 times within any window of 60 seconds.
C25_AsStated ==
    \A user_id \in UserIds, from \in GrantTimes :
        InWindow(user_id, from) <= DEFAULT_RATE

\* A user whose bucket is empty is refused with HTTP 429 and a Retry-After of
\* at least one second, and a call of check changes no bucket but the
\* caller's.
RefusedWhenEmpty ==
    [][\A user_id \in UserIds :
         (call'.op = "check" /\ call' # call /\ call'.arg = <<user_id>>) =>
            /\ \A other \in UserIds \ {user_id} :
                   /\ (other \in DOMAIN buckets) = (other \in DOMAIN buckets')
                   /\ other \in DOMAIN buckets => buckets'[other] = buckets[other]
            /\ call'.raised = "429" =>
                   /\ buckets'[user_id].tokens < Unit
                   /\ call'.returned[1] >= 1]_vars

\* ------------------------------------------------------------------------
\* services/api/src/routes/exams.py: the adaptive placement test
\* ------------------------------------------------------------------------

CEFR_LEVELS == <<"A1", "A2", "B1", "B2", "C1", "C2">>
PLACEMENT_START_LEVEL == "A2"
WINDOW_SIZE == 5
MAX_WINDOWS == 3

\* Bounds of the exam model: the requests that the connection of the test
\* carries, and the requests that a second connection sends beside it
MaxAnswers == 16
MaxDuplicates == 1

\* The exam attempt that exists, and one that does not
ExamId == 1
MissingExamId == 2

\* The numbers of questions that _fetch_questions_for_level may find
QuestionsFound == {0, WINDOW_SIZE}

\* _level_index
level_index(level) ==
    IF \E i \in 1 .. Len(CEFR_LEVELS) : CEFR_LEVELS[i] = level
    THEN (CHOOSE i \in 1 .. Len(CEFR_LEVELS) : CEFR_LEVELS[i] = level) - 1
    ELSE 1

\* _adjust_level
adjust_level(current_level, correct_in_window) ==
    LET idx == level_index(current_level)
        new == IF correct_in_window >= 4 THEN Min(idx + 1, Len(CEFR_LEVELS) - 1)
               ELSE IF correct_in_window <= 1 THEN Max(idx - 1, 0)
               ELSE idx
    IN  CEFR_LEVELS[new + 1]

\* The state that skill_breakdown holds: question_queue is the number of
\* question ids in the queue. An empty skill_breakdown reads as window 1,
\* position 1, no correct answer, the level of the row and an empty queue.
ExamState(current_window, window_position, window_correct, current_level, question_queue) ==
    [current_window |-> current_window, window_position |-> window_position,
     window_correct |-> window_correct, current_level |-> current_level,
     question_queue |-> question_queue]

\* A row of exam_attempts: answers is the number of answer records.
ExamRow(status, cefr_level, answers, state) ==
    [status |-> status, cefr_level |-> cefr_level, answers |-> answers,
     skill_breakdown |-> state]

\* POST /placement/start: the attempt is inserted, then the first window of
\* questions is fetched; without questions the request is answered 503.
StartPlacement(found) ==
    /\ exam_attempts = <<>>
    /\ IF found = 0
       THEN /\ exam_attempts' = <<ExamRow("in_progress", PLACEMENT_START_LEVEL, 0,
                                    ExamState(1, 1, 0, PLACEMENT_START_LEVEL, 0))>>
            /\ call' = Call("start_placement_test", <<>>, 0, "503", <<>>)
       ELSE /\ exam_attempts' = <<ExamRow("in_progress", PLACEMENT_START_LEVEL, 0,
                                    ExamState(1, 1, 0, PLACEMENT_START_LEVEL, found - 1))>>
            /\ call' = Call("start_placement_test", <<>>, 0, None, <<ExamId>>)
    /\ UNCHANGED <<exam_requests, schedulers, card, now, ratings>>
    /\ UNCHANGED storeVars
    /\ UNCHANGED taskVars
    /\ UNCHANGED limiterVars
    /\ UNCHANGED jobVars

\* The requests a connection may carry
Sends(c) == IF c = 1 THEN MaxAnswers ELSE MaxDuplicates

\* POST /{exam_id}/answer arrives on connection c and the attempt is
\* selected: 404 without a row, 400 unless it is in progress.
AnswerSelect(c, exam_id) ==
    /\ exam_requests[c].pc # "selected"
    /\ exam_requests[c].sent < Sends(c)
    /\ exam_requests' = [exam_requests EXCEPT ![c] =
          [pc |-> IF exam_id # ExamId \/ exam_attempts = <<>> THEN "404"
                  ELSE IF exam_attempts[1].status # "in_progress" THEN "400"
                  ELSE "selected",
           sent |-> @.sent + 1,
           exam |-> IF exam_id = ExamId /\ exam_attempts # <<>>
                       /\ exam_attempts[1].status = "in_progress"
                    THEN <<exam_attempts[1]>> ELSE <<>>]]
    /\ UNCHANGED <<exam_attempts, schedulers, card, now, ratings, call>>
    /\ UNCHANGED storeVars
    /\ UNCHANGED taskVars
    /\ UNCHANGED limiterVars
    /\ UNCHANGED jobVars

\* The placement branch of submit_answer on the row that was selected:
\* the row to write, with status "completed" if the exam is complete.
answered(exam, is_correct, found, next_exists) ==
    LET state == exam.skill_breakdown
        counted == state.window_correct + (IF is_correct THEN 1 ELSE 0)
        window_done == state.window_position >= WINDOW_SIZE
        current_level == IF window_done
                         THEN adjust_level(state.current_level, counted)
                         ELSE state.current_level
        current_window == IF window_done THEN state.current_window + 1
                          ELSE state.current_window
        window_position == IF window_done THEN 0 ELSE state.window_position
        window_correct == IF window_done THEN 0 ELSE counted
        fetched == window_done /\ current_window <= MAX_WINDOWS
        queue == IF fetched /\ found > 0 THEN found ELSE state.question_queue
        complete_early == window_done /\ (current_window > MAX_WINDOWS \/ found = 0)
        complete == complete_early \/ queue = 0 \/ ~next_exists
        written == IF complete_early THEN state
                   ELSE ExamState(current_window, window_position + 1, window_correct,
                                  current_level,
                                  IF queue > 0 THEN queue - 1 ELSE 0)
    IN  IF complete
        THEN ExamRow("completed", current_level, exam.answers + 1, written)
        ELSE [exam EXCEPT !.answers = exam.answers + 1, !.skill_breakdown = written]

\* The question is selected (404 if it does not exist), the answer is
\* checked, the next window fetched or the next question selected, and the
\* attempt updated; the request is answered 200.
AnswerUpdate(c, question_exists, is_correct, found, next_exists) ==
    /\ exam_requests[c].pc = "selected"
    /\ IF ~question_exists
       THEN /\ exam_requests' = [exam_requests EXCEPT ![c].pc = "404"]
            /\ UNCHANGED <<exam_attempts, accepted>>
       ELSE \E row \in {answered(exam_requests[c].exam[1], is_correct, found, next_exists)} :
            /\ exam_attempts' =
                 <<IF row.status = "completed" THEN row
                   ELSE [exam_attempts[1] EXCEPT !.answers = row.answers,
                            !.skill_breakdown = row.skill_breakdown]>>
            /\ exam_requests' = [exam_requests EXCEPT ![c].pc = "200"]
            /\ accepted' = accepted + 1
    /\ UNCHANGED <<vocabulary_items, vocabulary_progress, requests>>
    /\ UNCHANGED <<schedulers, card, now, ratings, call>>
    /\ UNCHANGED taskVars
    /\ UNCHANGED limiterVars
    /\ UNCHANGED jobVars

NextExam ==
    \/ \E found \in QuestionsFound : StartPlacement(found)
    \/ \E c \in Connections, exam_id \in {ExamId, MissingExamId} : AnswerSelect(c, exam_id)
    \/ \E c \in Connections, question_exists \in BOOLEAN, is_correct \in BOOLEAN,
          found \in QuestionsFound, next_exists \in BOOLEAN :
          AnswerUpdate(c, question_exists, is_correct, found, next_exists)

SpecExam == InitSubmit /\ [][NextExam]_vars

\* The answers after which a placement test is complete
PlacementLength == WINDOW_SIZE * MAX_WINDOWS

\* C26 as stated: the attempt is completed once 15 answers have been
\* accepted, never later, and its level lies within A1 .. C2.
C26_AsStated ==
    exam_attempts # <<>> =>
        /\ accepted >= PlacementLength => exam_attempts[1].status = "completed"
        /\ \E i \in 1 .. Len(CEFR_LEVELS) : CEFR_LEVELS[i] = exam_attempts[1].cefr_level

\* ------------------------------------------------------------------------
\* New cards
\* ------------------------------------------------------------------------

\* C27: initial_state() is all zero and new; every card returned by review
\* is not new; along a chain of reviews fed their own output the first
\* review, and no other, is given a new card and returns what _review_new
\* returns, and every later review returns the elapsed time, the counters
\* and the difficulty of _review_existing.
C27_NewUntilReviewed ==
    /\ Len(ratings) = 0 =>
           /\ is_new(card)
           /\ card = CardState(0, 0, 0, 0, 0, 0, card.last_review)
    /\ Len(ratings) > 0 => ~is_new(card)
    /\ Reviewed =>
           /\ is_new(Before) <=> Len(ratings) = 1
           /\ \A s \in schedulers :
                  IF Len(ratings) = 1
                  THEN card = review_new(s, Before, call.rating, now)
                  ELSE /\ card.elapsed_days = Max(now - Before.last_review, 0)
                       /\ card.reps = next_reps(Before, call.rating)
                       /\ card.lapses = next_lapses(Before, call.rating)
                       /\ card.difficulty =
                              next_difficulty(s, Before.difficulty, call.rating)

\* A card forgotten at its first review (reps = 0, lapses = 1) and reviewed
\* again two days later: the second review saw a card that was not new and
\* computed the time elapsed.
C27_Witness ==
    /\ Reviewed
    /\ ratings = <<RATING_AGAIN, RATING_GOOD>>
    /\ Before.reps = 0 /\ Before.lapses = 1
    /\ ~is_new(Before)
    /\ card.elapsed_days = 2 * Unit
    /\ card.reps = 1 /\ card.lapses = 1

\* ------------------------------------------------------------------------
\* services/api/src/routes/vocabulary.py: GET /review, the due-review queue
\* ------------------------------------------------------------------------

\* A second vocabulary item that exists
OtherItemId == 3

\* limit: int = Query(default=20, ge=1, le=50)
DEFAULT_LIMIT == 20

\* The session sizes a client asks for
Limits == {1, DEFAULT_LIMIT}

\* The bodies of POST /review sent while the queue is read
DueInputs ==
    { <<ItemId, RATING_AGAIN>>, <<ItemId, RATING_GOOD>>,
      <<OtherItemId, RATING_AGAIN>>, <<OtherItemId, RATING_EASY>>,
      <<ItemId, 0>>, <<MissingItemId, RATING_GOOD>> }

\* Mutant of DueRows: the due date is not compared with now.
DueRows_unfiltered(at) == vocabulary_progress

\* .lte("fsrs_due_date", now)
DueRows(at) ==
    SelectSeq(vocabulary_progress, LAMBDA row : row.fsrs_due_date <= at)

\* .order("fsrs_due_date"): the orders in which the store may return rows
\* (rows with the same due date in any order)
Ordered(rows) ==
    { s \in [1 .. Len(rows) -> {rows[i] : i \in 1 .. Len(rows)}] :
        /\ \A i, j \in 1 .. Len(rows) : i # j => s[i] # s[j]
        /\ \A i, j \in 1 .. Len(rows) :
              i < j => s[i].fsrs_due_date <= s[j].fsrs_due_date }

\* get_due_reviews: progress_rows, total_due, new_available and the items of
\* the response. The handler reads the store and changes nothing.
GetDueReviews(limit) ==
    /\ \E s \in Ordered(DueRows(now)) :
       \E progress_rows \in {SubSeq(s, 1, Min(limit, Len(s)))} :
          call' = Call("get_due_reviews", <<[limit |-> limit, now |-> now]>>, 0, None,
                       <<[ items |-> SelectSeq(progress_rows,
                                        LAMBDA prog :
                                          prog.vocabulary_item_id \in vocabulary_items),
                           total_due |-> Len(DueRows(now)),
                           new_available |->
                             Max(Cardinality(vocabulary_items)
                                   - Cardinality({vocabulary_progress[i].vocabulary_item_id :
                                                    i \in 1 .. Len(vocabulary_progress)}),
                                 0) ]>>)
    /\ UNCHANGED <<schedulers, card, ratings, now>>
    /\ UNCHANGED storeVars
    /\ UNCHANGED taskVars
    /\ UNCHANGED serviceVars

InitDue ==
    /\ schedulers = {fsrs}
    /\ now = 0
    /\ card = initial_state(0)
    /\ ratings = <<>>
    /\ call = Call(None, <<>>, 0, None, <<>>)
    /\ vocabulary_items = {ItemId, OtherItemId}
    /\ vocabulary_progress = <<>>
    /\ requests = [p \in Connections |-> Idle]
    /\ accepted = 0
    /\ TasksInit
    /\ ServicesInit

NextDue ==
    \/ \E body \in DueInputs : SubmitReview(body[1], body[2])
    \/ \E limit \in Limits : GetDueReviews(limit)
    \/ Tick

SpecDue == InitDue /\ [][NextDue]_vars

\* The latest request read the due-review queue.
Queued == call.op = "get_due_reviews"

\* The rows of the latest response
QueuedRows == {call.returned[1].items[i] : i \in 1 .. Len(call.returned[1].items)}

\* The rows of vocabulary_progress
StoredRows == {vocabulary_progress[i] : i \in 1 .. Len(vocabulary_progress)}

MaxJobs == 11
MaxEvaluations == 2

\* .limit(10) of the poll
PollLimit == 10

\* The keys of _JOB_HANDLERS once _load_job_modules has run: of the six names
\* it imports, writing_eval, difficulty_recal and pronunciation_eval are
\* modules of services/worker/src/jobs.
JOB_HANDLERS == {"writing_eval", "difficulty_recalibration", "pronunciation_eval"}

\* A row of async_jobs; created_at grows with id
Job(id, job_type, status) == [id |-> id, job_type |-> job_type, status |-> status]

\* The rows of async_jobs with the given job_type
JobsOfType(job_type) ==
    SelectSeq(async_jobs, LAMBDA job : job.job_type = job_type)

\* routes/writing.py _create_async_job, routes/cultural.py generate: a
\* pending row is inserted for the local worker
Enqueue(job_type) ==
    /\ Len(async_jobs) < MaxJobs
    /\ job_type = "writing_eval" => Len(JobsOfType(job_type)) < MaxEvaluations
    /\ async_jobs' = Append(async_jobs, Job(Len(async_jobs) + 1, job_type, "pending"))
    /\ handled' = Append(handled, 0)
    /\ UNCHANGED worker
    /\ UNCHANGED <<limiterVars, examVars>>
    /\ UNCHANGED now
    /\ UNCHANGED chainVars
    /\ UNCHANGED storeVars
    /\ UNCHANGED taskVars

\* .update({"status": ...}).eq("id", job_id)
with_status(job_id, status) ==
    [i \in 1 .. Len(async_jobs) |->
        IF async_jobs[i].id = job_id
        THEN Job(job_id, async_jobs[i].job_type, status)
        ELSE async_jobs[i]]

\* .select("*").eq("status", "pending").order("created_at").limit(10)
pending_jobs ==
    LET pending == SelectSeq(async_jobs, LAMBDA job : job.status = "pending")
    IN  SubSeq(pending, 1, Min(PollLimit, Len(pending)))

\* The steps of the worker leave everything but the jobs unchanged.
WorkerFrame ==
    /\ UNCHANGED <<limiterVars, examVars>>
    /\ UNCHANGED now
    /\ UNCHANGED chainVars
    /\ UNCHANGED storeVars
    /\ UNCHANGED taskVars

\* _poll_loop: asyncio.sleep(5) is over and the pending rows are selected
Poll ==
    /\ worker.pc = "sleep"
    /\ worker' = [pc |-> "for", jobs |-> pending_jobs]
    /\ UNCHANGED <<async_jobs, handled>>
    /\ WorkerFrame

\* _poll_loop: handler is None, continue
SkipJob ==
    /\ worker.pc = "for"
    /\ worker.jobs # <<>>
    /\ Head(worker.jobs).job_type \notin JOB_HANDLERS
    /\ worker' = [pc |-> "for", jobs |-> Tail(worker.jobs)]
    /\ UNCHANGED <<async_jobs, handled>>
    /\ WorkerFrame

\* _poll_loop: the row is marked as processing and the handler is called
StartJob ==
    /\ worker.pc = "for"
    /\ worker.jobs # <<>>
    /\ Head(worker.jobs).job_type \in JOB_HANDLERS
    /\ async_jobs' = with_status(Head(worker.jobs).id, "processing")
    /\ handled' = [handled EXCEPT ![Head(worker.jobs).id] = @ + 1]
    /\ worker' = [pc |-> "handler", jobs |-> worker.jobs]
    /\ WorkerFrame

\* _poll_loop: the handler returns (completed) or raises (failed)
FinishJob(status) ==
    /\ worker.pc = "handler"
    /\ async_jobs' = with_status(Head(worker.jobs).id, status)
    /\ worker' = [pc |-> "for", jobs |-> Tail(worker.jobs)]
    /\ UNCHANGED handled
    /\ WorkerFrame

\* _poll_loop: the rows of the poll are done, await asyncio.sleep(5)
Sleep ==
    /\ worker.pc = "for"
    /\ worker.jobs = <<>>
    /\ worker' = Sleeping
    /\ UNCHANGED <<async_jobs, handled>>
    /\ WorkerFrame

\* One step of _poll_loop
PollLoop ==
    \/ Poll
    \/ SkipJob
    \/ StartJob
    \/ FinishJob("completed")
    \/ FinishJob("failed")
    \/ Sleep

NextWorker ==
    \/ Enqueue("writing_eval")
    \/ Enqueue("cultural_content")
    \/ Poll
    \/ SkipJob
    \/ StartJob
    \/ FinishJob("completed")
    \/ FinishJob("failed")
    \/ Sleep

SpecWorker == InitSubmit /\ [][NextWorker]_vars

\* The coroutine of _poll_loop is always resumed: every await of the loop
\* returns and every handler returns or raises.
SpecWorkerFair == SpecWorker /\ WF_vars(PollLoop)

\* The job ids of the model
JobIds == 1 .. MaxJobs

\* The row with this id is pending and its job_type has a handler.
PendingWithHandler(id) ==
    /\ id <= Len(async_jobs)
    /\ async_jobs[id].status = "pending"
    /\ async_jobs[id].job_type \in JOB_HANDLERS

\* The row with this id is completed or failed.
Finished(id) ==
    /\ id <= Len(async_jobs)
    /\ async_jobs[id].status \in {"completed", "failed"}

\* C30 as stated: every pending row whose job_type has a registered handler
\* is eventually completed or failed, whatever other rows are pending; no
\* handler is called twice for a row, and a row in processing is eventually
\* completed or failed.
C30_AsStated ==
    /\ [](\A id \in JobIds : id <= Len(handled) => handled[id] <= 1)
    /\ \A id \in JobIds : PendingWithHandler(id) ~> Finished(id)
    /\ \A id \in JobIds :
          (id <= Len(async_jobs) /\ async_jobs[id].status = "processing")
             ~> Finished(id)

====
